---- MODULE Spec2Model ----
(***************************************************************************)
(* A model of the ckb-transaction-cobuild authorization engine:           *)
(*   - utils.rs      the script-hash index and its queries                *)
(*   - otx.rs        the OTX flag decoder and the OTX range scanner        *)
(*   - lib.rs        cobuild_entry: the OTX loop, the stray-Otx check and  *)
(*                   the residual whole-transaction check                  *)
(*   - sighashall.rs the whole-transaction path (parse_message)            *)
(*   - the lock demo's main                                                *)
(* Indices are 0-based as in the source; a TLA+ sequence s holds the       *)
(* element of index i at s[i + 1].                                         *)
(***************************************************************************)
EXTENDS Integers, Sequences, FiniteSets, TLC

VARIABLES
    tx,                     \* the transaction: cells, deps, witnesses (immutable)
    pc,                     \* position of the run
    state,                  \* CobuildState
    witness_index,          \* loop variable of the OTX loop
    otx_witness_end_index,  \* lib.rs: last witness index the loop looked at
    otx_count,              \* Otx witnesses the loop has entered
    execution_count,        \* lib.rs: diagnostics counter
    calls,                  \* verifier invocations so far: seal, hash, outcome
    result,                 \* "none" while running, then Ok.. or the error
    fn_in,                  \* argument of the pure function under study
    fn_out                  \* its value

vars == <<tx, pc, state, witness_index, otx_witness_end_index, otx_count,
          execution_count, calls, result, fn_in, fn_out>>

(***************************************************************************)
(* Bounds of the model.                                                    *)
(***************************************************************************)
MaxInputs == 2
MaxOutputs == 2
MaxWitnesses == 4
MaxSeals == 2
MaxDeps == 1
MaxActions == 2

\* The cursors of CobuildState and the Otx counts are u32 and their sums wrap.
\* TLC's integers are 32-bit signed, so the word is cut to 30 bits here: the
\* sum of two words is then still an integer TLC can hold.
WordModulus == 1073741824

AddU32(a, b) == (a + b) % WordModulus

\* the hash of the script being run, and the other script hashes of the model
current_script_hash == "A"
ScriptHashes == {"A", "B"}
NoScript == "-"

(***************************************************************************)
(* Witnesses.  A witness is Empty (zero bytes), WitnessArgs (non-empty,    *)
(* does not decode as WitnessLayout) or one of the WitnessLayout variants. *)
(***************************************************************************)
EmptyWitness == [kind |-> "Empty"]
WitnessArgs == [kind |-> "WitnessArgs"]
SighashAll(m) == [kind |-> "SighashAll", message |-> m]
SighashAllOnly == [kind |-> "SighashAllOnly"]
OtxStart(si, so, sc, sh) ==
    [kind |-> "OtxStart", start_input_cell |-> si, start_output_cell |-> so,
     start_cell_deps |-> sc, start_header_deps |-> sh]
Otx(fl, fi, fo, fc, fh, di, do, dc, dh, ss) ==
    [kind |-> "Otx", flag |-> fl,
     fixed_input_cells |-> fi, fixed_output_cells |-> fo,
     fixed_cell_deps |-> fc, fixed_header_deps |-> fh,
     dynamic_input_cells |-> di, dynamic_output_cells |-> do,
     dynamic_cell_deps |-> dc, dynamic_header_deps |-> dh,
     seals |-> ss]

LayoutKinds == {"SighashAll", "SighashAllOnly", "OtxStart", "Otx"}

\* WitnessLayout::try_from(w).ok(): the layout, or None
\* (a witness is its own layout here; None is told by IsNone)
IsNone(w) == w.kind \notin LayoutKinds
IsOtx(w) == w.kind = "Otx"
IsOtxStart(w) == w.kind = "OtxStart"

\* a classifier that looks at the first witness only
cobuild_activated_first_only(ws) == Len(ws) >= 1 /\ ~IsNone(ws[1])

\* parse_witness_layouts: the second return value
cobuild_activated(ws) == \E i \in 1..Len(ws) : ~IsNone(ws[i])

(***************************************************************************)
(* utils.rs: the script-hash index.                                        *)
(***************************************************************************)
RECURSIVE ScanFor_newest_first(_, _, _)
\* a scan that puts each new index in front of the list
ScanFor_newest_first(hashes, h, from) ==
    IF from >= Len(hashes) THEN <<>>
    ELSE IF hashes[from + 1] = h
         THEN ScanFor_newest_first(hashes, h, from + 1) \o <<from>>
         ELSE ScanFor_newest_first(hashes, h, from + 1)

RECURSIVE ScanFor(_, _, _)
\* the indices (0-based, in scan order) of the cells of `hashes` that carry h;
\* from: number of cells already scanned
ScanFor(hashes, h, from) ==
    IF from >= Len(hashes) THEN <<>>
    ELSE IF hashes[from + 1] = h
         THEN <<from>> \o ScanFor(hashes, h, from + 1)
         ELSE ScanFor(hashes, h, from + 1)

Occurring(hashes) == {hashes[i] : i \in 1..Len(hashes)} \ {NoScript}

cache_script_hashes(t) ==
    [h \in Occurring(t.input_lock) \cup Occurring(t.input_type)
           \cup Occurring(t.output_type) |->
        [input_lock |-> ScanFor(t.input_lock, h, 0),
         input_type |-> ScanFor(t.input_type, h, 0),
         output_type |-> ScanFor(t.output_type, h, 0)]]

RoleList(location, script_type) ==
    CASE script_type = "InputLock" -> location.input_lock
      [] script_type = "InputType" -> location.input_type
      [] script_type = "OutputType" -> location.output_type

AnyInRange(list, start_index, end_index) ==
    \E k \in 1..Len(list) : list[k] >= start_index /\ list[k] < end_index

\* a query that takes a hash of the index for present under every role
is_script_exist_any_role(cache, script_hash, script_type) ==
    script_hash \in DOMAIN cache

is_script_exist(cache, script_hash, script_type) ==
    /\ script_hash \in DOMAIN cache
    /\ RoleList(cache[script_hash], script_type) # <<>>

is_script_included(cache, script_hash, script_type, start_index, end_index) ==
    /\ script_hash \in DOMAIN cache
    /\ ~AnyInRange(RoleList(cache[script_hash], script_type),
                   start_index, end_index)

(***************************************************************************)
(* otx.rs: the flag decoder.                                               *)
(***************************************************************************)
RECURSIVE BitAnd(_, _)
BitAnd(a, b) ==
    IF a = 0 \/ b = 0 THEN 0
    ELSE (a % 2) * (b % 2) + 2 * BitAnd(a \div 2, b \div 2)

\* a decoder that forgets bit 4 in the mask of the reserved bits
parse_otx_flag_narrow_mask(flag) ==
    IF BitAnd(flag, 224) # 0
    THEN [err |-> "InvalidOtxFlag", dynamic_inputs |-> FALSE,
          dynamic_outputs |-> FALSE, dynamic_cell_deps |-> FALSE,
          dynamic_header_deps |-> FALSE]
    ELSE [err |-> "none",
          dynamic_inputs |-> BitAnd(flag, 1) # 0,
          dynamic_outputs |-> BitAnd(flag, 2) # 0,
          dynamic_cell_deps |-> BitAnd(flag, 4) # 0,
          dynamic_header_deps |-> BitAnd(flag, 8) # 0]

parse_otx_flag(flag) ==
    IF BitAnd(flag, 240) # 0
    THEN [err |-> "InvalidOtxFlag", dynamic_inputs |-> FALSE,
          dynamic_outputs |-> FALSE, dynamic_cell_deps |-> FALSE,
          dynamic_header_deps |-> FALSE]
    ELSE [err |-> "none",
          dynamic_inputs |-> BitAnd(flag, 1) # 0,
          dynamic_outputs |-> BitAnd(flag, 2) # 0,
          dynamic_cell_deps |-> BitAnd(flag, 4) # 0,
          dynamic_header_deps |-> BitAnd(flag, 8) # 0]

(***************************************************************************)
(* otx.rs: the OTX range scanner.  ScanState is the triple of locals       *)
(* (otx_start, start_index, end_index) of fetch_otx_start, with the error  *)
(* the loop returned, if any.                                              *)
(***************************************************************************)
ScanInit == [found |-> FALSE, start_index |-> 0, end_index |-> 0, err |-> "none"]

\* a scan that does not require an Otx to follow the previous one directly
scan_witness_no_gap_check(s, i, w) ==
    IF s.err # "none" THEN s
    ELSE IF IsOtxStart(w) THEN
        IF ~s.found
        THEN [s EXCEPT !.found = TRUE, !.start_index = i, !.end_index = i]
        ELSE [s EXCEPT !.err = "WrongWitnessLayout"]
    ELSE IF IsOtx(w) THEN
        IF ~s.found
        THEN [s EXCEPT !.err = "WrongWitnessLayout"]
        ELSE [s EXCEPT !.end_index = i]
    ELSE s

\* a scan that lets a second OtxStart take the place of the first
scan_witness_second_start_ok(s, i, w) ==
    IF s.err # "none" THEN s
    ELSE IF IsOtxStart(w) THEN
        [s EXCEPT !.found = TRUE, !.start_index = i, !.end_index = i]
    ELSE IF IsOtx(w) THEN
        IF ~s.found \/ s.end_index + 1 # i
        THEN [s EXCEPT !.err = "WrongWitnessLayout"]
        ELSE [s EXCEPT !.end_index = i]
    ELSE s

\* the body of the scan loop for the witness w of index i
scan_witness(s, i, w) ==
    IF s.err # "none" THEN s
    ELSE IF IsOtxStart(w) THEN
        IF ~s.found
        THEN [s EXCEPT !.found = TRUE, !.start_index = i, !.end_index = i]
        ELSE [s EXCEPT !.err = "WrongWitnessLayout"]
    ELSE IF IsOtx(w) THEN
        IF ~s.found \/ s.end_index + 1 # i
        THEN [s EXCEPT !.err = "WrongWitnessLayout"]
        ELSE [s EXCEPT !.end_index = i]
    ELSE s

RECURSIVE ScanWitnesses(_, _, _)
ScanWitnesses(ws, i, s) ==
    IF i >= Len(ws) THEN s
    ELSE ScanWitnesses(ws, i + 1, scan_witness(s, i, ws[i + 1]))

\* fetch_otx_start(&witness_layouts) as cobuild_entry calls it: the scan, then
\* "no OtxStart" is reported as None, not as an error
fetch_otx_start(ws) ==
    LET s == ScanWitnesses(ws, 0, ScanInit)
    IN  [err |-> s.err, is_none |-> ~s.found, otx_start_index |-> s.start_index]

(***************************************************************************)
(* The signing message hashes.  A hash is modelled by what it absorbs: the *)
(* personalization tag, the message and the range of the transaction.      *)
(***************************************************************************)
OtxSigningRange(is, ic, os, oc, cs, cc, hs, hc) ==
    [input_start |-> is, inputs_count |-> ic,
     output_start |-> os, outputs_count |-> oc,
     cell_dep_start |-> cs, cell_deps_count |-> cc,
     header_dep_start |-> hs, header_deps_count |-> hc]

\* reading count items from index start of an array of n items fails
OutOfBounds(start, count, n) == count > 0 /\ start + count > n

generate_otx_smh(t, message, range) ==
    IF \/ OutOfBounds(range.input_start, range.inputs_count, Len(t.input_lock))
       \/ OutOfBounds(range.output_start, range.outputs_count, Len(t.output_type))
       \/ OutOfBounds(range.cell_dep_start, range.cell_deps_count, t.cell_deps)
       \/ OutOfBounds(range.header_dep_start, range.header_deps_count, t.header_deps)
    THEN [err |-> "LazyReader", hash |-> <<>>]
    ELSE [err |-> "none",
          hash |-> [tag |-> "otx", message |-> message, range |-> range]]

generate_signing_message_hash(message) ==
    [tag |-> IF message.present THEN "sighash_all" ELSE "sighash_all_only",
     message |-> message, range |-> "tx"]

(***************************************************************************)
(* sighashall.rs: the whole-transaction path.                              *)
(***************************************************************************)
\* the witness indices load_witness(_, Source::GroupInput) yields: those of the
\* inputs locked by the current script, while a witness exists at that index
GroupWitnessIndices(t) ==
    LET all == ScanFor(t.input_lock, current_script_hash, 0)
    IN  SelectSeq(all, LAMBDA i : i < Len(t.witnesses))

\* a check that does not skip the first witness of the group
check_others_in_group_no_skip(t) ==
    LET g == GroupWitnessIndices(t)
    IN  IF \A k \in 1..Len(g) : t.witnesses[g[k] + 1].kind = "Empty"
        THEN "none" ELSE "WrongWitnessLayout"

\* a check that takes every witness that does not decode for an empty one
check_others_in_group_undecoded_ok(t) ==
    LET g == GroupWitnessIndices(t)
    IN  IF \A k \in 2..Len(g) : IsNone(t.witnesses[g[k] + 1])
        THEN "none" ELSE "WrongWitnessLayout"

check_others_in_group(t) ==
    LET g == GroupWitnessIndices(t)
    IN  IF \A k \in 2..Len(g) : t.witnesses[g[k] + 1].kind = "Empty"
        THEN "none" ELSE "WrongWitnessLayout"

NoMessage == [present |-> FALSE, actions |-> <<>>]

\* a search that stops at the first SighashAll
fetch_message_first_wins(t) ==
    LET sa == SelectSeq(t.witnesses, LAMBDA w : w.kind = "SighashAll")
    IN  IF Len(sa) >= 1
        THEN [err |-> "none",
              message |-> [present |-> TRUE, actions |-> sa[1].message]]
        ELSE [err |-> "none", message |-> NoMessage]

fetch_message(t) ==
    LET sa == SelectSeq(t.witnesses, LAMBDA w : w.kind = "SighashAll")
    IN  IF Len(sa) = 1
        THEN [err |-> "none",
              message |-> [present |-> TRUE, actions |-> sa[1].message]]
        ELSE IF Len(sa) = 0 THEN [err |-> "none", message |-> NoMessage]
        ELSE [err |-> "WrongWitnessLayout", message |-> NoMessage]

fetch_seal(t) ==
    LET g == GroupWitnessIndices(t)
    IN  IF g = <<>> THEN [err |-> "Sys", seal |-> <<>>]
        ELSE IF t.witnesses[g[1] + 1].kind \in {"SighashAll", "SighashAllOnly"}
        THEN [err |-> "none", seal |-> [witness |-> g[1], index |-> 0]]
        ELSE [err |-> "MoleculeEncoding", seal |-> <<>>]

\* utils.rs
RECURSIVE check_message(_, _)
check_message(cache, actions) ==
    IF actions = <<>> THEN "none"
    ELSE LET action == Head(actions)
         IN  IF action.script_type \notin {0, 1, 2} THEN "WrongScriptType"
             ELSE IF ~is_script_exist(cache, action.script_hash,
                        CASE action.script_type = 0 -> "InputLock"
                          [] action.script_type = 1 -> "InputType"
                          [] action.script_type = 2 -> "OutputType")
             THEN "ScriptHashAbsent"
             ELSE check_message(cache, Tail(actions))

\* one verifier invocation, as the log of invocations records it
Invocation(seal, hash, ok) == [seal |-> seal, hash |-> hash, ok |-> ok]

\* parse_message: the hash and the seal, or the first error
parse_message(t) ==
    IF check_others_in_group(t) # "none"
    THEN [err |-> "WrongWitnessLayout", hash |-> <<>>, seal |-> <<>>]
    ELSE LET m == fetch_message(t)
             s == fetch_seal(t)
         IN  IF m.err # "none" THEN [err |-> m.err, hash |-> <<>>, seal |-> <<>>]
             ELSE IF s.err # "none" THEN [err |-> s.err, hash |-> <<>>, seal |-> <<>>]
             ELSE [err |-> "none",
                   hash |-> generate_signing_message_hash(m.message),
                   seal |-> s.seal]

\* cobuild_normal_entry(verifier, &script_hashes_cache); ok: what the verifier
\* answers if it is invoked.  Returns the error and the invocations made.
cobuild_normal_entry(t, cache, ok) ==
    IF check_others_in_group(t) # "none"
    THEN [err |-> "WrongWitnessLayout", calls |-> <<>>]
    ELSE LET m == fetch_message(t)
             s == fetch_seal(t)
         IN  IF m.err # "none" THEN [err |-> m.err, calls |-> <<>>]
             ELSE IF check_message(cache, m.message.actions) # "none"
             THEN [err |-> check_message(cache, m.message.actions), calls |-> <<>>]
             ELSE IF s.err # "none" THEN [err |-> s.err, calls |-> <<>>]
             ELSE [err |-> IF ok THEN "none" ELSE "AuthError",
                   calls |-> <<Invocation(s.seal,
                                 generate_signing_message_hash(m.message), ok)>>]

(***************************************************************************)
(* lib.rs: cobuild_entry.                                                  *)
(***************************************************************************)
\* CobuildState as built from the OtxStart witness w of index i
InitialState(i, w) ==
    [otx_start_index |-> i,
     input_start |-> w.start_input_cell,
     input_end |-> w.start_input_cell,
     output_end |-> w.start_output_cell,
     cell_dep_end |-> w.start_cell_deps,
     header_dep_end |-> w.start_header_deps]

NoState ==
    [otx_start_index |-> 0, input_start |-> 0, input_end |-> 0,
     output_end |-> 0, cell_dep_end |-> 0, header_dep_end |-> 0]

\* an advance that forgets the fixed counts
Advance_dynamic_only(st, otx) ==
    [st EXCEPT
        !.input_end = AddU32(@, otx.dynamic_input_cells),
        !.output_end = AddU32(@, otx.dynamic_output_cells),
        !.cell_dep_end = AddU32(@, otx.dynamic_cell_deps),
        !.header_dep_end = AddU32(@, otx.dynamic_header_deps)]

\* step 6.h, and the "continue" of an OTX that does not concern the script
Advance(st, otx) ==
    [st EXCEPT
        !.input_end = AddU32(@, AddU32(otx.fixed_input_cells, otx.dynamic_input_cells)),
        !.output_end = AddU32(@, AddU32(otx.fixed_output_cells, otx.dynamic_output_cells)),
        !.cell_dep_end = AddU32(@, AddU32(otx.fixed_cell_deps, otx.dynamic_cell_deps)),
        !.header_dep_end = AddU32(@, AddU32(otx.fixed_header_deps, otx.dynamic_header_deps))]

lock_hash_existing_in_fixed(cache, st, otx) ==
    is_script_included(cache, current_script_hash, "InputLock",
        st.input_end, AddU32(st.input_end, otx.fixed_input_cells))

lock_hash_existing_in_dynamic(cache, st, otx) ==
    is_script_included(cache, current_script_hash, "InputLock",
        AddU32(st.input_end, otx.fixed_input_cells),
        AddU32(AddU32(st.input_end, otx.fixed_input_cells), otx.dynamic_input_cells))

FixedRange(st, otx) ==
    OtxSigningRange(st.input_end, otx.fixed_input_cells,
                    st.output_end, otx.fixed_output_cells,
                    st.cell_dep_end, otx.fixed_cell_deps,
                    st.header_dep_end, otx.fixed_header_deps)

\* a dynamic range that takes the dynamic outputs in
DynamicRange_with_dynamic_outputs(st, otx) ==
    OtxSigningRange(st.input_end,
                    AddU32(otx.fixed_input_cells, otx.dynamic_input_cells),
                    st.output_end,
                    AddU32(otx.fixed_output_cells, otx.dynamic_output_cells),
                    st.cell_dep_end, otx.fixed_cell_deps,
                    st.header_dep_end, otx.fixed_header_deps)

DynamicRange(st, otx) ==
    OtxSigningRange(st.input_end,
                    AddU32(otx.fixed_input_cells, otx.dynamic_input_cells),
                    st.output_end, otx.fixed_output_cells,
                    st.cell_dep_end, otx.fixed_cell_deps,
                    st.header_dep_end, otx.fixed_header_deps)

\* the seal searches of step 6.f: the index (0-based) of the seal found, or -1
MatchingSeals(seals) ==
    {k \in 0..(Len(seals) - 1) : seals[k + 1] = current_script_hash}

ForwardSeal(seals) ==
    IF MatchingSeals(seals) = {} THEN -1
    ELSE CHOOSE k \in MatchingSeals(seals) : \A j \in MatchingSeals(seals) : k <= j

ReverseSeal(seals) ==
    IF MatchingSeals(seals) = {} THEN -1
    ELSE CHOOSE k \in MatchingSeals(seals) : \A j \in MatchingSeals(seals) : k >= j

Outcome(e, st, cs) == [err |-> e, state |-> st, calls |-> cs]

\* the "if lock_hash_existing_in_dynamic" block and step 6.h; done: the
\* invocations this OTX has made so far
DynamicPart(t, cache, st, i, otx, done, okD) ==
    IF ~lock_hash_existing_in_dynamic(cache, st, otx)
    THEN Outcome("none", Advance(st, otx), done)
    ELSE LET smh == generate_otx_smh(t, i, DynamicRange(st, otx))
             k == ReverseSeal(otx.seals)
         IN  IF smh.err # "none" THEN Outcome(smh.err, st, done)
             ELSE IF k = -1 THEN Outcome("NoSealFound", st, done)
             ELSE LET cs == Append(done,
                        Invocation([witness |-> i, index |-> k], smh.hash, okD))
                  IN  IF okD THEN Outcome("none", Advance(st, otx), cs)
                      ELSE Outcome("AuthError", st, cs)

\* a fixed block that goes on to the dynamic block after a failed invocation
FixedPart_ignores_failure(t, cache, st, i, otx, okF, okD) ==
    IF ~lock_hash_existing_in_fixed(cache, st, otx)
    THEN DynamicPart(t, cache, st, i, otx, <<>>, okD)
    ELSE LET smh == generate_otx_smh(t, i, FixedRange(st, otx))
             k == ForwardSeal(otx.seals)
         IN  IF smh.err # "none" THEN Outcome(smh.err, st, <<>>)
             ELSE IF k = -1 THEN Outcome("NoSealFound", st, <<>>)
             ELSE DynamicPart(t, cache, st, i, otx,
                    <<Invocation([witness |-> i, index |-> k], smh.hash, okF)>>, okD)

\* the "if lock_hash_existing_in_fixed" block, then the rest
FixedPart(t, cache, st, i, otx, okF, okD) ==
    IF ~lock_hash_existing_in_fixed(cache, st, otx)
    THEN DynamicPart(t, cache, st, i, otx, <<>>, okD)
    ELSE LET smh == generate_otx_smh(t, i, FixedRange(st, otx))
             k == ForwardSeal(otx.seals)
         IN  IF smh.err # "none" THEN Outcome(smh.err, st, <<>>)
             ELSE IF k = -1 THEN Outcome("NoSealFound", st, <<>>)
             ELSE LET cs == <<Invocation([witness |-> i, index |-> k], smh.hash, okF)>>
                  IN  IF okF THEN DynamicPart(t, cache, st, i, otx, cs, okD)
                      ELSE Outcome("AuthError", st, cs)

\* a check that lets an Otx with a dynamic count pass
AllFixedZero_and_dynamic(otx) ==
    /\ otx.fixed_input_cells = 0
    /\ otx.fixed_output_cells = 0
    /\ otx.fixed_cell_deps = 0
    /\ otx.fixed_header_deps = 0
    /\ otx.dynamic_input_cells = 0
    /\ otx.dynamic_output_cells = 0
    /\ otx.dynamic_cell_deps = 0
    /\ otx.dynamic_header_deps = 0

\* the count checks of an Otx
AllFixedZero(otx) ==
    /\ otx.fixed_input_cells = 0
    /\ otx.fixed_output_cells = 0
    /\ otx.fixed_cell_deps = 0
    /\ otx.fixed_header_deps = 0

DynamicWithoutFlag(cfg, otx) ==
    \/ ~cfg.dynamic_inputs /\ otx.dynamic_input_cells # 0
    \/ ~cfg.dynamic_outputs /\ otx.dynamic_output_cells # 0
    \/ ~cfg.dynamic_cell_deps /\ otx.dynamic_cell_deps # 0
    \/ ~cfg.dynamic_header_deps /\ otx.dynamic_header_deps # 0

\* the body of the OTX loop for the Otx witness otx of index i; okF, okD: what
\* the verifier answers to the fixed-range and the dynamic-range invocation
ProcessOtx(t, cache, st, i, otx, okF, okD) ==
    LET cfg == parse_otx_flag(otx.flag)
    IN  IF cfg.err # "none" THEN Outcome(cfg.err, st, <<>>)
        ELSE IF AllFixedZero(otx) THEN Outcome("WrongCount", st, <<>>)
        ELSE IF DynamicWithoutFlag(cfg, otx) THEN Outcome("WrongCount", st, <<>>)
        ELSE IF /\ ~lock_hash_existing_in_fixed(cache, st, otx)
                /\ ~lock_hash_existing_in_dynamic(cache, st, otx)
        THEN Outcome("none", Advance(st, otx), <<>>)
        ELSE FixedPart(t, cache, st, i, otx, okF, okD)

\* a + b leaves the word
Overflows(a, b) == a + b >= WordModulus

\* the sum cursor + (fixed + dynamic) of step 6.h leaves the word
SumOverflows(cursor, fixed, dynamic) ==
    \/ Overflows(fixed, dynamic)
    \/ Overflows(cursor, AddU32(fixed, dynamic))

\* one of the sums of the input range bounds leaves the word
InputSumOverflows(st, otx) ==
    \/ Overflows(st.input_end, otx.fixed_input_cells)
    \/ Overflows(AddU32(st.input_end, otx.fixed_input_cells),
                 otx.dynamic_input_cells)

\* one of the sums of the cursor advance leaves the word
AdvanceOverflows(st, otx) ==
    \/ SumOverflows(st.input_end, otx.fixed_input_cells, otx.dynamic_input_cells)
    \/ SumOverflows(st.output_end, otx.fixed_output_cells, otx.dynamic_output_cells)
    \/ SumOverflows(st.cell_dep_end, otx.fixed_cell_deps, otx.dynamic_cell_deps)
    \/ SumOverflows(st.header_dep_end, otx.fixed_header_deps, otx.dynamic_header_deps)

\* The u32 sums of the loop body are plain `+` and `+=`: a build with overflow
\* checks (checked) panics where a sum leaves the word, a build without them
\* wraps.  The sums of the input range bounds come right after the count
\* checks, those of the other cursors at the advance.
ProcessOtxInBuild(t, cache, st, i, otx, okF, okD, checked) ==
    LET r == ProcessOtx(t, cache, st, i, otx, okF, okD)
    IN  IF ~checked \/ r.err \in {"InvalidOtxFlag", "WrongCount"} THEN r
        ELSE IF InputSumOverflows(st, otx) THEN Outcome("Panic", st, <<>>)
        ELSE IF r.err = "none" /\ AdvanceOverflows(st, otx)
        THEN Outcome("Panic", st, r.calls)
        ELSE r

\* an end of the run that is not moved to the witness count when the loop
\* stopped at the last witness
first_non_otx_witness_index_no_end_case(ws, end_index) ==
    end_index

\* step 7
first_non_otx_witness_index(ws, end_index) ==
    IF end_index = Len(ws) - 1 THEN Len(ws) ELSE end_index

\* a check that takes any decoded witness outside the run for an Otx
StrayOtx_any_layout(ws, st, end_index) ==
    \E loop_index \in 0..(Len(ws) - 1) :
        /\ \/ loop_index < st.otx_start_index
           \/ loop_index >= first_non_otx_witness_index(ws, end_index)
        /\ ~IsNone(ws[loop_index + 1])
        /\ ~IsOtxStart(ws[loop_index + 1])

StrayOtx(ws, st, end_index) ==
    \E loop_index \in 0..(Len(ws) - 1) :
        /\ \/ loop_index < st.otx_start_index
           \/ loop_index >= first_non_otx_witness_index(ws, end_index)
        /\ IsOtx(ws[loop_index + 1])

\* a scan of the inputs that starts at the end of the OTX range
ResidualInput_after_range(t, st) ==
    \E index \in 0..(Len(t.input_lock) - 1) :
        /\ index >= st.input_end
        /\ t.input_lock[index + 1] = current_script_hash

\* step 8
ResidualInput(t, st) ==
    \E index \in 0..(Len(t.input_lock) - 1) :
        /\ index < st.input_start \/ index >= st.input_end
        /\ t.input_lock[index + 1] = current_script_hash

Finish(r, cs) ==
    /\ pc' = "done"
    /\ result' = r
    /\ calls' = calls \o cs

\* an entry that takes a missing OtxStart for an error
Entry_none_is_error ==
    /\ pc = "start"
    /\ LET ws == tx.witnesses
           f == fetch_otx_start(ws)
       IN  IF ~cobuild_activated(ws) THEN
               /\ Finish("OkFalse", <<>>)
               /\ UNCHANGED <<state, witness_index, otx_witness_end_index>>
           ELSE IF f.err # "none" \/ f.is_none THEN
               /\ Finish(IF f.is_none THEN "WrongOtxStart" ELSE f.err, <<>>)
               /\ UNCHANGED <<state, witness_index, otx_witness_end_index>>
           ELSE
               /\ state' = InitialState(f.otx_start_index, ws[f.otx_start_index + 1])
               /\ witness_index' = f.otx_start_index + 1
               /\ otx_witness_end_index' = f.otx_start_index
               /\ pc' = IF f.otx_start_index + 1 < Len(ws) THEN "otx_loop" ELSE "post_loop"
               /\ UNCHANGED <<result, calls>>
    /\ UNCHANGED <<tx, otx_count, execution_count, fn_in, fn_out>>

\* cobuild_entry up to the OTX loop
Entry ==
    /\ pc = "start"
    /\ LET ws == tx.witnesses
           cache == cache_script_hashes(tx)
           f == fetch_otx_start(ws)
       IN  IF ~cobuild_activated(ws) THEN
               /\ Finish("OkFalse", <<>>)
               /\ UNCHANGED <<state, witness_index, otx_witness_end_index>>
           ELSE IF f.err # "none" THEN
               /\ Finish(f.err, <<>>)
               /\ UNCHANGED <<state, witness_index, otx_witness_end_index>>
           ELSE IF f.is_none THEN
               /\ \E ok \in BOOLEAN :
                    LET r == cobuild_normal_entry(tx, cache, ok)
                    IN  Finish(IF r.err = "none" THEN "OkTrue" ELSE r.err, r.calls)
               /\ UNCHANGED <<state, witness_index, otx_witness_end_index>>
           ELSE
               /\ state' = InitialState(f.otx_start_index, ws[f.otx_start_index + 1])
               /\ witness_index' = f.otx_start_index + 1
               /\ otx_witness_end_index' = f.otx_start_index
               /\ pc' = IF f.otx_start_index + 1 < Len(ws) THEN "otx_loop" ELSE "post_loop"
               /\ UNCHANGED <<result, calls>>
    /\ UNCHANGED <<tx, otx_count, execution_count, fn_in, fn_out>>

\* one iteration of the OTX loop
OtxLoop ==
    /\ pc = "otx_loop"
    /\ otx_witness_end_index' = witness_index
    /\ LET w == tx.witnesses[witness_index + 1]
       IN  IF ~IsOtx(w) THEN
               /\ pc' = "post_loop"
               /\ UNCHANGED <<state, witness_index, otx_count, execution_count,
                              calls, result>>
           ELSE \E okF, okD, checked \in BOOLEAN :
               LET r == ProcessOtxInBuild(tx, cache_script_hashes(tx), state,
                                          witness_index, w, okF, okD, checked)
               IN  /\ otx_count' = otx_count + 1
                   /\ execution_count' = execution_count
                          + Len(SelectSeq(r.calls, LAMBDA c : c.ok))
                   /\ calls' = calls \o r.calls
                   /\ state' = r.state
                   /\ IF r.err # "none" THEN
                          /\ pc' = "done"
                          /\ result' = r.err
                          /\ UNCHANGED witness_index
                      ELSE
                          /\ witness_index' = witness_index + 1
                          /\ pc' = IF witness_index + 1 < Len(tx.witnesses)
                                   THEN "otx_loop" ELSE "post_loop"
                          /\ UNCHANGED result
    /\ UNCHANGED <<tx, fn_in, fn_out>>

\* steps 7 and 8
PostLoop ==
    /\ pc = "post_loop"
    /\ IF StrayOtx(tx.witnesses, state, otx_witness_end_index) THEN
           /\ Finish("WrongWitnessLayout", <<>>)
           /\ UNCHANGED execution_count
       ELSE IF ResidualInput(tx, state) THEN
           /\ execution_count' = execution_count + 1
           /\ \E ok \in BOOLEAN :
                LET r == cobuild_normal_entry(tx, cache_script_hashes(tx), ok)
                IN  Finish(IF r.err = "none" THEN "OkTrue" ELSE r.err, r.calls)
       ELSE
           /\ Finish("OkTrue", <<>>)
           /\ UNCHANGED execution_count
    /\ UNCHANGED <<tx, state, witness_index, otx_witness_end_index, otx_count,
                   fn_in, fn_out>>

(***************************************************************************)
(* The lock demo (contracts/transaction-cobuild-lock-demo): main.          *)
(***************************************************************************)
\* the exit code of the script: 0 for Ok(()), else the Error's discriminant
exit_code(r) ==
    CASE r = "Ok" -> 0
      [] r = "IndexOutOfBound" -> 1
      [] r = "ItemMissing" -> 2
      [] r = "LengthNotEnough" -> 3
      [] r = "Encoding" -> 4
      [] r = "AuthFailed" -> 5
      [] r = "WrongSighashAll" -> 6
      [] r = "WrongWitnessLayout" -> 7
      [] r = "WrongOtxStart" -> 8
      [] r = "InvalidOtxFlag" -> 9

\* a main that drops the result of ckb_auth
LockDemoMain_ignores_auth ==
    /\ pc = "demo_start"
    /\ LET r == parse_message(tx)
       IN  IF r.err = "none"
           THEN \E ok \in BOOLEAN :
                    Finish("Ok", <<Invocation(r.seal, r.hash, ok)>>)
           ELSE Finish("Ok", <<>>)
    /\ UNCHANGED <<tx, state, witness_index, otx_witness_end_index, otx_count,
                   execution_count, fn_in, fn_out>>

LockDemoMain ==
    /\ pc = "demo_start"
    /\ LET r == parse_message(tx)
       IN  IF r.err = "none"
           THEN \E ok \in BOOLEAN :
                    Finish(IF ok THEN "Ok" ELSE "AuthFailed",
                           <<Invocation(r.seal, r.hash, ok)>>)
           ELSE Finish("Ok", <<>>)
    /\ UNCHANGED <<tx, state, witness_index, otx_witness_end_index, otx_count,
                   execution_count, fn_in, fn_out>>

(***************************************************************************)
(* The OTX lock demo (contracts/transaction-cobuild-otx-lock-demo): main   *)
(* calls otx.rs, verify_otx_message, which walks the OTXs with             *)
(* OtxMessageIter.  The iterator's fields are held in the variables of the *)
(* run: witness_counter in witness_index, input_cell_counter in            *)
(* state.input_end, output_cell_counter in state.output_end,               *)
(* cell_deps_counter in state.cell_dep_end, header_deps_counter in         *)
(* state.header_dep_end.                                                   *)
(***************************************************************************)
\* otx.rs, fetch_otx_start(): the scan, then Ok only for an OtxStart with
\* end_index > 0
otx_fetch_otx_start(ws) ==
    LET s == ScanWitnesses(ws, 0, ScanInit)
    IN  IF s.err # "none" THEN [err |-> s.err, start_index |-> 0]
        ELSE IF s.found /\ s.end_index > 0
        THEN [err |-> "none", start_index |-> s.start_index]
        ELSE [err |-> "WrongOtxStart", start_index |-> 0]

\* OtxMessageIter::next reads the four dynamic counts from the fixed fields
IterDynamicCounts(otx) ==
    [input_cells |-> otx.fixed_input_cells,
     output_cells |-> otx.fixed_output_cells,
     cell_deps |-> otx.fixed_cell_deps,
     header_deps |-> otx.fixed_header_deps]

\* input_lock_hash_iter.any(..): an input among the fixed_input_cells inputs
\* from the input counter on is locked by the current script
IterLockInFixed(t, st, otx) ==
    \E k \in st.input_end..(st.input_end + otx.fixed_input_cells - 1) :
        k < Len(t.input_lock) /\ t.input_lock[k + 1] = current_script_hash

\* the counters after the branch that hashes
IterAdvanceHashed(st, otx) ==
    [st EXCEPT
        !.input_end = @ + otx.fixed_input_cells,
        !.output_end = @ + otx.fixed_output_cells,
        !.cell_dep_end = @ + otx.fixed_cell_deps,
        !.header_dep_end = @ + otx.fixed_header_deps]

\* the counters after the branch that skips the Otx
IterAdvanceSkipped(st, otx) ==
    LET d == IterDynamicCounts(otx)
    IN  [st EXCEPT
            !.input_end = @ + otx.fixed_input_cells + d.input_cells,
            !.output_end = @ + otx.fixed_output_cells + d.output_cells,
            !.cell_dep_end = @ + otx.fixed_cell_deps + d.cell_deps,
            !.header_dep_end = @ + otx.fixed_header_deps + d.header_deps]

\* the seals (0-based indices, in list order) that carry the current script
MatchingSealSeq(seals) ==
    SelectSeq([k \in 1..Len(seals) |-> k - 1],
              LAMBDA k : seals[k + 1] = current_script_hash)

\* verify_otx_message, the closure of `all`: the invocations `any` makes on
\* the matching seals m of witness i when the first `tried - 1` of them fail
\* and, if passes, the next one verifies
SealTrials(i, m, hash, tried, passes) ==
    [k \in 1..tried |->
        Invocation([witness |-> i, index |-> m[k]], hash, passes /\ k = tried)]

\* the outcomes of the closure for one item of the iterator: every matching
\* seal fails, or the matching seals before one that verifies fail
OtxDemoVerify(i, otx, hash) ==
    LET m == MatchingSealSeq(otx.seals)
    IN  {[pass |-> FALSE, calls |-> SealTrials(i, m, hash, Len(m), FALSE)]}
        \cup {[pass |-> TRUE, calls |-> SealTrials(i, m, hash, n, TRUE)] :
                n \in 1..Len(m)}

\* main up to the first call of next: parse_otx_message
OtxDemoStart ==
    /\ pc = "otx_demo_start"
    /\ LET f == otx_fetch_otx_start(tx.witnesses)
       IN  IF f.err # "none" THEN
               /\ Finish(f.err, <<>>)
               /\ UNCHANGED <<state, witness_index>>
           ELSE
               /\ state' = InitialState(f.start_index, tx.witnesses[f.start_index + 1])
               /\ witness_index' = f.start_index + 1
               /\ pc' = "otx_demo_next"
               /\ UNCHANGED <<result, calls>>
    /\ UNCHANGED <<tx, otx_witness_end_index, otx_count, execution_count,
                   fn_in, fn_out>>

\* one iteration of the loop of OtxMessageIter::next, with the closure of
\* verify_otx_message on the item it yields, and the end of main
OtxDemoNext ==
    /\ pc = "otx_demo_next"
    /\ IF witness_index >= Len(tx.witnesses)
          \/ ~IsOtx(tx.witnesses[witness_index + 1]) THEN
           /\ Finish("Ok", <<>>)
           /\ UNCHANGED <<state, witness_index, otx_count>>
       ELSE LET otx == tx.witnesses[witness_index + 1]
                hash == [tag |-> "otx", message |-> witness_index,
                         range |-> FixedRange(state, otx)]
            IN  /\ witness_index' = witness_index + 1
                /\ otx_count' = otx_count + 1
                /\ IF IterLockInFixed(tx, state, otx) THEN
                       /\ state' = IterAdvanceHashed(state, otx)
                       /\ \E v \in OtxDemoVerify(witness_index, otx, hash) :
                            IF v.pass
                            THEN /\ calls' = calls \o v.calls
                                 /\ UNCHANGED <<pc, result>>
                            ELSE Finish("AuthFailed", v.calls)
                   ELSE
                       /\ state' = IterAdvanceSkipped(state, otx)
                       /\ UNCHANGED <<pc, result, calls>>
    /\ UNCHANGED <<tx, otx_witness_end_index, execution_count, fn_in, fn_out>>

(***************************************************************************)
(* Calls of the pure functions, on arguments held in fn_in.                *)
(***************************************************************************)
CallIsScriptIncluded ==
    /\ pc = "call_is_script_included"
    /\ fn_out' = is_script_included(cache_script_hashes(tx), fn_in.script_hash,
                    fn_in.script_type, fn_in.start_index, fn_in.end_index)
    /\ pc' = "returned"
    /\ UNCHANGED <<tx, state, witness_index, otx_witness_end_index, otx_count,
                   execution_count, calls, result, fn_in>>

CallFetchMessage ==
    /\ pc = "call_fetch_message"
    /\ fn_out' = fetch_message(tx)
    /\ pc' = "returned"
    /\ UNCHANGED <<tx, state, witness_index, otx_witness_end_index, otx_count,
                   execution_count, calls, result, fn_in>>

\* cache_script_hashes(): the index is built and kept in fn_out
CallCacheScriptHashes ==
    /\ pc = "call_cache_script_hashes"
    /\ fn_out' = cache_script_hashes(tx)
    /\ pc' = "cached"
    /\ UNCHANGED <<tx, state, witness_index, otx_witness_end_index, otx_count,
                   execution_count, calls, result, fn_in>>

\* a query of the index: is_script_exist and is_script_included borrow it
\* (&BTreeMap) and answer; fn_in keeps the last query with its answers
QueryIndex ==
    /\ pc \in {"cached", "queried"}
    /\ pc' = "queried"
    /\ \E h \in ScriptHashes \cup {"C"},
          ty \in {"InputLock", "InputType", "OutputType"} :
        fn_in' = [script_hash |-> h, script_type |-> ty,
                  exist |-> is_script_exist(fn_out, h, ty),
                  included |-> is_script_included(fn_out, h, ty, 0, MaxInputs)]
    /\ UNCHANGED <<tx, state, witness_index, otx_witness_end_index, otx_count,
                   execution_count, calls, result, fn_out>>

CallCheckMessage ==
    /\ pc = "call_check_message"
    /\ fn_out' = check_message(cache_script_hashes(tx), fn_in)
    /\ pc' = "returned"
    /\ UNCHANGED <<tx, state, witness_index, otx_witness_end_index, otx_count,
                   execution_count, calls, result, fn_in>>

CallParseOtxFlag ==
    /\ pc = "call_parse_otx_flag"
    /\ fn_out' = parse_otx_flag(fn_in)
    /\ pc' = "returned"
    /\ UNCHANGED <<tx, state, witness_index, otx_witness_end_index, otx_count,
                   execution_count, calls, result, fn_in>>

(***************************************************************************)
(* otx.rs, OtxMessageIter::next: what the OTX hasher absorbs, and           *)
(* tests.rs, generate_otx_signing_message_hash: what the reference absorbs. *)
(* A cell array is a sequence of records [id, data]: id stands for the      *)
(* encoded input and the encoded cell body, data is the cell's payload, a   *)
(* sequence of bytes.  What is absorbed is a sequence of bytes and ids.     *)
(***************************************************************************)
\* u32::to_le_bytes
to_le_bytes(v) ==
    <<v % 256, (v \div 256) % 256, (v \div 65536) % 256, (v \div 16777216) % 256>>

\* Iterator::skip and Iterator::take
Skip(seq, k) == IF k >= Len(seq) THEN <<>> ELSE SubSeq(seq, k + 1, Len(seq))
Take(seq, k) == IF k >= Len(seq) THEN seq ELSE SubSeq(seq, 1, k)

RECURSIVE Flatten(_)
Flatten(seqs) == IF seqs = <<>> THEN <<>> ELSE Head(seqs) \o Flatten(Tail(seqs))

\* the bytes bs as items of the absorbed sequence
Raw(bs) == [k \in 1..Len(bs) |-> <<"byte", bs[k]>>]

\* as_slice of a molecule Bytes: the length header, then the bytes
BytesAsSlice(data) == to_le_bytes(Len(data)) \o data

\* the updates of the hasher for one input and for one output
AbsorbInput(c) ==
    <<<<"input", c.id>>, <<"cell", c.id>>>>
    \o Raw(to_le_bytes(Len(c.data))) \o Raw(c.data)
AbsorbOutput(c) == <<<<"cell", c.id>>>> \o Raw(BytesAsSlice(c.data))
AbsorbDep(d) == <<<<"dep", d>>>>

\* a hasher that takes its items from the head of the arrays
otx_message_items_no_skip(message, inputs, outputs, cell_deps, header_deps, counters, fixed) ==
    <<<<"message", message>>>>
    \o Raw(to_le_bytes(fixed.input_cells))
    \o Flatten([k \in 1..Len(Take(inputs, fixed.input_cells)) |->
            AbsorbInput(Take(inputs, fixed.input_cells)[k])])
    \o Raw(to_le_bytes(fixed.output_cells))
    \o Flatten([k \in 1..Len(Take(outputs, fixed.output_cells)) |->
            AbsorbOutput(Take(outputs, fixed.output_cells)[k])])
    \o Raw(to_le_bytes(fixed.cell_deps))
    \o Flatten([k \in 1..Len(Take(cell_deps, fixed.cell_deps)) |->
            AbsorbDep(Take(cell_deps, fixed.cell_deps)[k])])
    \o Raw(to_le_bytes(fixed.header_deps))
    \o Flatten([k \in 1..Len(Take(header_deps, fixed.header_deps)) |->
            AbsorbDep(Take(header_deps, fixed.header_deps)[k])])

\* OtxMessageIter::next, the branch that hashes: counters are the four
\* counters of the iterator, fixed the four fixed counts of the Otx
otx_message_items(message, inputs, outputs, cell_deps, header_deps, counters, fixed) ==
    LET ins == Take(Skip(inputs, counters.input_cell), fixed.input_cells)
        outs == Take(Skip(outputs, counters.output_cell), fixed.output_cells)
        cds == Take(Skip(cell_deps, counters.cell_deps), fixed.cell_deps)
        hds == Take(Skip(header_deps, counters.header_deps), fixed.header_deps)
    IN  <<<<"message", message>>>>
        \o Raw(to_le_bytes(fixed.input_cells))
        \o Flatten([k \in 1..Len(ins) |-> AbsorbInput(ins[k])])
        \o Raw(to_le_bytes(fixed.output_cells))
        \o Flatten([k \in 1..Len(outs) |-> AbsorbOutput(outs[k])])
        \o Raw(to_le_bytes(fixed.cell_deps))
        \o Flatten([k \in 1..Len(cds) |-> AbsorbDep(cds[k])])
        \o Raw(to_le_bytes(fixed.header_deps))
        \o Flatten([k \in 1..Len(hds) |-> AbsorbDep(hds[k])])

\* tests.rs, generate_otx_signing_message_hash: otx_inputs and otx_outputs are
\* the cells of the OTX taken as a transaction of its own
generate_otx_signing_message_hash(message, otx_inputs, otx_outputs) ==
    <<<<"message", message>>>>
    \o Raw(to_le_bytes(Len(otx_inputs)))
    \o Flatten([i \in 1..Len(otx_inputs) |->
            <<<<"input", otx_inputs[i].id>>, <<"cell", otx_inputs[i].id>>>>
            \o Raw(to_le_bytes(Len(otx_inputs[i].data)))
            \o Raw(otx_inputs[i].data)])
    \o Raw(to_le_bytes(Len(otx_outputs)))
    \o Flatten([i \in 1..Len(otx_outputs) |->
            <<<<"cell", otx_outputs[i].id>>>>
            \o Raw(BytesAsSlice(otx_outputs[i].data))])
    \o Raw(to_le_bytes(0))
    \o Raw(to_le_bytes(0))

\* the cells of a transaction whose payloads are datas: the id is the index
Cells(datas) == [i \in 1..Len(datas) |-> [id |-> i - 1, data |-> datas[i]]]
Deps(n) == [i \in 1..n |-> i - 1]

\* the count cells from index start on, as the cells of a transaction of its
\* own; there is no such transaction when the array ends before
OtxCells(cells, start, count) ==
    IF start + count <= Len(cells) THEN SubSeq(cells, start + 1, start + count)
    ELSE <<>>

CallOtxMessageItems ==
    /\ pc = "call_otx_message_items"
    /\ fn_out' =
        [onchain |->
            otx_message_items("message", Cells(fn_in.inputs), Cells(fn_in.outputs),
                Deps(fn_in.deps), Deps(fn_in.deps),
                [input_cell |-> fn_in.s, output_cell |-> fn_in.t,
                 cell_deps |-> 0, header_deps |-> 0],
                [input_cells |-> fn_in.n, output_cells |-> fn_in.m,
                 cell_deps |-> fn_in.fixed_deps, header_deps |-> fn_in.fixed_deps]),
         reference |->
            generate_otx_signing_message_hash("message",
                OtxCells(Cells(fn_in.inputs), fn_in.s, fn_in.n),
                OtxCells(Cells(fn_in.outputs), fn_in.t, fn_in.m))]
    /\ pc' = "returned"
    /\ UNCHANGED <<tx, state, witness_index, otx_witness_end_index, otx_count,
                   execution_count, calls, result, fn_in>>

(***************************************************************************)
(* The transactions of the model.                                          *)
(***************************************************************************)
SeqsUpTo(S, n) == UNION {[1..k -> S] : k \in 0..n}

Transaction(locks, in_types, out_types, cd, hd, ws) ==
    [input_lock |-> locks, input_type |-> in_types, output_type |-> out_types,
     cell_deps |-> cd, header_deps |-> hd, witnesses |-> ws]

Untyped(n) == [i \in 1..n |-> NoScript]

\* a lock script runs because it locks an input of the transaction
LockSeqs ==
    {l \in SeqsUpTo(ScriptHashes, MaxInputs) :
        \E i \in 1..Len(l) : l[i] = current_script_hash}

\* 1. any arrangement of witnesses, with two kinds of Otx
OtxFixedOnly == Otx(0, 1, 1, 0, 0, 0, 0, 0, 0, <<"A">>)
OtxWithDynamic == Otx(3, 1, 0, 0, 0, 1, 1, 0, 0, <<"A", "A">>)

LayoutWitnesses ==
    {EmptyWitness, WitnessArgs, SighashAll(<<>>),
     OtxStart(0, 0, 0, 0), OtxStart(1, 1, 1, 1), OtxFixedOnly, OtxWithDynamic}

\* the running script locks the first input here; families 2 to 6 place it
\* anywhere
LayoutLocks == {l \in LockSeqs : l[1] = current_script_hash}

LayoutTransaction(t) ==
    \E l \in LayoutLocks, ws \in SeqsUpTo(LayoutWitnesses, MaxWitnesses) :
        t = Transaction(l, Untyped(Len(l)), Untyped(MaxOutputs), MaxDeps, MaxDeps, ws)

\* 2. one OTX, its flag and counts varied
FlagValues == 0..15 \cup {16, 127, 240, 255}
FixedCounts == {<<0, 0, 0, 0>>, <<1, 0, 0, 0>>, <<0, 1, 0, 0>>, <<0, 0, 1, 0>>,
                <<0, 0, 0, 1>>, <<1, 1, 1, 1>>}
DynamicCounts == {0, 1} \X {0, 1} \X {0, 1} \X {0, 1}

CountOtxs ==
    {Otx(fl, f[1], f[2], f[3], f[4], d[1], d[2], d[3], d[4], <<"A">>) :
        fl \in FlagValues, f \in FixedCounts, d \in DynamicCounts}

CountTransaction(t) ==
    \E l \in LockSeqs, o \in CountOtxs :
        t = Transaction(l, Untyped(Len(l)), Untyped(MaxOutputs), MaxDeps, MaxDeps,
                        <<OtxStart(0, 0, 0, 0), o>>)

\* 3. one OTX, its input ranges and seals varied
SealOtxs ==
    {Otx(IF di = 0 THEN 0 ELSE 1, fi, fo, 0, 0, di, 0, 0, 0, ss) :
        fi \in 0..MaxInputs, di \in {0, 1}, fo \in 0..MaxOutputs,
        ss \in SeqsUpTo(ScriptHashes, MaxSeals)}

SealTransaction(t) ==
    \E l \in LockSeqs, n \in {1, MaxOutputs}, si \in {0, 1}, o \in SealOtxs :
        t = Transaction(l, Untyped(Len(l)), Untyped(n), 0, 0,
                        <<OtxStart(si, 0, 0, 0), o>>)

\* 4. whole-transaction witnesses, the message of a SighashAll varied
Actions == {[script_type |-> ty, script_hash |-> h] : ty \in 0..3, h \in ScriptHashes}
Messages == {<<>>} \cup {<<a>> : a \in Actions}
MessageWitnesses ==
    {EmptyWitness, SighashAllOnly} \cup {SighashAll(m) : m \in Messages}

MessageTransaction(t) ==
    \E l \in LockSeqs, ty \in {NoScript, "B"},
       ws \in SeqsUpTo(MessageWitnesses, MaxInputs) :
        t = Transaction(l, Untyped(Len(l)), <<ty>>, 0, 0, ws)

\* 5. two OTXs whose output counts reach the end of the u32 word
WordOtxs ==
    {Otx(3, 1, fo, 0, 0, di, do, 0, 0, <<"A", "A">>) :
        fo \in {0, 1}, di \in {0, 1}, do \in {0, WordModulus - 1}}

WordTransaction(t) ==
    \E l \in LockSeqs, so \in {0, 1}, o1 \in WordOtxs, o2 \in WordOtxs :
        t = Transaction(l, Untyped(Len(l)), Untyped(MaxOutputs), 0, 0,
                        <<OtxStart(0, so, 0, 0), o1, o2>>)

\* 6. the cells of an index: any lock and type scripts
TypeSeqs(n) == [1..n -> ScriptHashes \cup {NoScript}]

IndexTransaction(t) ==
    \E l \in SeqsUpTo(ScriptHashes, MaxInputs),
       ot \in SeqsUpTo(ScriptHashes \cup {NoScript}, MaxOutputs) :
        \E it \in TypeSeqs(Len(l)) :
            t = Transaction(l, it, ot, 0, 0, <<>>)

ScriptTypes == {"InputLock", "InputType", "OutputType"}

(***************************************************************************)
(* Specifications.                                                         *)
(***************************************************************************)
InitRun(start) ==
    /\ pc = start
    /\ state = NoState
    /\ witness_index = 0
    /\ otx_witness_end_index = 0
    /\ otx_count = 0
    /\ execution_count = 0
    /\ calls = <<>>
    /\ result = "none"
    /\ fn_out = "none"

\* cobuild_entry
Init ==
    /\ \/ LayoutTransaction(tx)
       \/ CountTransaction(tx)
       \/ SealTransaction(tx)
       \/ MessageTransaction(tx)
       \/ WordTransaction(tx)
    /\ fn_in = "none"
    /\ InitRun("start")

Next == Entry \/ OtxLoop \/ PostLoop

Spec == Init /\ [][Next]_vars

\* the lock demo
InitLockDemo ==
    /\ LayoutTransaction(tx) \/ MessageTransaction(tx)
    /\ fn_in = "none"
    /\ InitRun("demo_start")

NextLockDemo == LockDemoMain

SpecLockDemo == InitLockDemo /\ [][NextLockDemo]_vars

\* is_script_included on any index and any query
InitIncluded ==
    /\ IndexTransaction(tx)
    /\ fn_in \in [script_hash : {"A", "C"}, script_type : ScriptTypes,
                  start_index : 0..MaxInputs, end_index : 0..MaxInputs]
    /\ InitRun("call_is_script_included")

NextIncluded == CallIsScriptIncluded

SpecIncluded == InitIncluded /\ [][NextIncluded]_vars

\* parse_otx_flag on every flag byte
InitFlag ==
    /\ tx = Transaction(<<>>, <<>>, <<>>, 0, 0, <<>>)
    /\ fn_in \in 0..255
    /\ InitRun("call_parse_otx_flag")

NextFlag == CallParseOtxFlag

SpecFlag == InitFlag /\ [][NextFlag]_vars

\* fetch_message on any witnesses
InitFetch ==
    /\ LayoutTransaction(tx) \/ MessageTransaction(tx)
    /\ fn_in = "none"
    /\ InitRun("call_fetch_message")

NextFetch == CallFetchMessage

SpecFetch == InitFetch /\ [][NextFetch]_vars

\* OtxMessageIter::next on any cells, cursors and fixed counts
Payloads == {<<>>, <<1>>}

InitAbsorb ==
    /\ tx = Transaction(<<>>, <<>>, <<>>, 0, 0, <<>>)
    /\ \E ins \in SeqsUpTo(Payloads, MaxInputs), outs \in SeqsUpTo(Payloads, MaxOutputs) :
        fn_in \in [inputs : {ins}, outputs : {outs}, deps : {MaxDeps},
                   s : 0..Len(ins), n : 0..MaxInputs,
                   t : 0..Len(outs), m : 0..MaxOutputs,
                   fixed_deps : {0, 1}]
    /\ InitRun("call_otx_message_items")

NextAbsorb == CallOtxMessageItems

SpecAbsorb == InitAbsorb /\ [][NextAbsorb]_vars

\* check_message on any message of at most MaxActions actions, over cells whose
\* type scripts are all absent or all the script "A"; "C" is on no cell
CheckedActions ==
    {[script_type |-> ty, script_hash |-> h] : ty \in 0..3, h \in {"A", "C"}}

RoleTransaction(t) ==
    \E l \in SeqsUpTo(ScriptHashes, MaxInputs), ity \in {NoScript, "A"},
       ot \in {<<>>, <<NoScript>>, <<"A">>} :
        t = Transaction(l, [i \in 1..Len(l) |-> ity], ot, 0, 0, <<>>)

InitCheck ==
    /\ RoleTransaction(tx)
    /\ fn_in \in SeqsUpTo(CheckedActions, MaxActions)
    /\ InitRun("call_check_message")

NextCheck == CallCheckMessage

SpecCheck == InitCheck /\ [][NextCheck]_vars

\* the OTX lock demo
InitOtxDemo ==
    /\ CountTransaction(tx) \/ SealTransaction(tx)
    /\ fn_in = "none"
    /\ InitRun("otx_demo_start")

NextOtxDemo == OtxDemoStart \/ OtxDemoNext

SpecOtxDemo == InitOtxDemo /\ [][NextOtxDemo]_vars

\* the scan of the OTX lock demo, on any arrangement of an OtxStart, an Otx
\* and a witness of another layout
StartWitnesses == {WitnessArgs, OtxStart(0, 0, 0, 0), OtxFixedOnly}

StartTransaction(t) ==
    \E l \in LockSeqs, ws \in SeqsUpTo(StartWitnesses, MaxWitnesses) :
        t = Transaction(l, Untyped(Len(l)), Untyped(MaxOutputs), 0, 0, ws)

InitOtxStart ==
    /\ StartTransaction(tx)
    /\ fn_in = "none"
    /\ InitRun("otx_demo_start")

NextOtxStart == OtxDemoStart \/ OtxDemoNext

SpecOtxStart == InitOtxStart /\ [][NextOtxStart]_vars

\* cache_script_hashes on any cells, then queries of the index
InitIndex ==
    /\ IndexTransaction(tx)
    /\ fn_in = "none"
    /\ InitRun("call_cache_script_hashes")

NextIndex == CallCacheScriptHashes \/ QueryIndex

SpecIndex == InitIndex /\ [][NextIndex]_vars

(***************************************************************************)
(* Properties.                                                             *)
(***************************************************************************)
Done == pc = "done"
Witnesses == tx.witnesses
NumWitnesses == Len(tx.witnesses)
NumInputs == Len(tx.input_lock)

\* the cell of index i carries script hash h in the given role
CellHasScript(h, script_type, i) ==
    CASE script_type = "InputLock" ->
            i < Len(tx.input_lock) /\ tx.input_lock[i + 1] = h
      [] script_type = "InputType" ->
            i < Len(tx.input_type) /\ tx.input_type[i + 1] = h
      [] script_type = "OutputType" ->
            i < Len(tx.output_type) /\ tx.output_type[i + 1] = h

\* C1: is_script_included(cache, hash, role, start, end) is true exactly when
\* some cell with index in [start, end) carries the hash in that role; it is
\* false for a hash absent from the index and for a hash all of whose indices
\* lie outside the range.
C1_IncludedIffOccursInRange ==
    pc = "returned" =>
        (fn_out <=> \E i \in fn_in.start_index..(fn_in.end_index - 1) :
                        CellHasScript(fn_in.script_hash, fn_in.script_type, i))

\* C9: parse_otx_flag(v) is InvalidOtxFlag exactly when one of the four high
\* bits of v is set; otherwise the four booleans are bits 0, 1, 2, 3 of v.
Bit(v, k) == (v \div (2 ^ k)) % 2 = 1

C9_FlagDecoding ==
    pc = "returned" =>
        /\ fn_out.err = "InvalidOtxFlag" <=> fn_in >= 16
        /\ fn_in < 16 =>
            /\ fn_out.err = "none"
            /\ fn_out.dynamic_inputs = Bit(fn_in, 0)
            /\ fn_out.dynamic_outputs = Bit(fn_in, 1)
            /\ fn_out.dynamic_cell_deps = Bit(fn_in, 2)
            /\ fn_out.dynamic_header_deps = Bit(fn_in, 3)

\* a flag with one high bit and low bits set is rejected
C9_Witness ==
    /\ pc = "returned"
    /\ fn_in = 21
    /\ fn_out.err = "InvalidOtxFlag"

\* C3: the lock demo returns success without calling ckb_auth only when no
\* witness of the transaction decodes as a cobuild WitnessLayout.
C3_SuccessWithoutAuthOnlyIfLegacy ==
    (Done /\ result = "Ok" /\ calls = <<>>) => ~cobuild_activated(Witnesses)

(***************************************************************************)
(* The OTX run of the transaction, read off the witnesses.                 *)
(***************************************************************************)
Kind(i) == Witnesses[i + 1].kind
WitnessIndices == 0..(NumWitnesses - 1)
HasOtxStart == \E i \in WitnessIndices : Kind(i) = "OtxStart"
FirstOtxStart ==
    CHOOSE i \in WitnessIndices :
        Kind(i) = "OtxStart" /\ \A j \in 0..(i - 1) : Kind(j) # "OtxStart"

\* witness i is an Otx of the contiguous run after the OtxStart
InRun(i) ==
    /\ HasOtxStart
    /\ i > FirstOtxStart
    /\ \A j \in (FirstOtxStart + 1)..i : Kind(j) = "Otx"

RECURSIVE InputsClaimed(_, _)
\* the inputs the Otx witnesses of indices from..(to - 1) claim
InputsClaimed(from, to) ==
    IF from >= to THEN 0
    ELSE Witnesses[from + 1].fixed_input_cells
         + Witnesses[from + 1].dynamic_input_cells
         + InputsClaimed(from + 1, to)

\* the first input of the Otx of witness index i of the run
InputBegin(i) ==
    Witnesses[FirstOtxStart + 1].start_input_cell
    + InputsClaimed(FirstOtxStart + 1, i)

\* an input with index in [from, to) is locked by the current script
LockedInRange(from, to) ==
    \E k \in from..(to - 1) :
        k < NumInputs /\ tx.input_lock[k + 1] = current_script_hash

\* a successful verifier invocation with a seal of the Otx of witness index i
\* and the OTX hash over count inputs from input begin
VerifiedOver(i, begin, count) ==
    \E k \in 1..Len(calls) :
        /\ calls[k].ok
        /\ calls[k].seal.witness = i
        /\ calls[k].hash.tag = "otx"
        /\ calls[k].hash.range.input_start = begin
        /\ calls[k].hash.range.inputs_count = count

\* C2: cobuild_entry returns Ok(true) through the OTX path only if every Otx
\* of the run whose fixed or dynamic input sub-range holds an input locked by
\* the current script was verified successfully with the matching hash.
C2_ConcernedOtxIsVerified ==
    (Done /\ result = "OkTrue" /\ HasOtxStart) =>
        \A i \in WitnessIndices : InRun(i) =>
            LET fi == Witnesses[i + 1].fixed_input_cells
                di == Witnesses[i + 1].dynamic_input_cells
                b == InputBegin(i)
            IN  /\ LockedInRange(b, b + fi) => VerifiedOver(i, b, fi)
                /\ LockedInRange(b + fi, b + fi + di) => VerifiedOver(i, b, fi + di)

\* the Otx the loop is at
CurrentWitness == Witnesses[witness_index + 1]
AtOtx == pc = "otx_loop" /\ CurrentWitness.kind = "Otx"

\* C4: with witnesses OtxStart(0,0,0,0), Otx(flag 0, fixed 1 input and 2
\* outputs, no deps, no dynamic counts, one seal of the current script), input 0
\* the input of the current script and two outputs, the verifier is invoked
\* exactly once, with that seal and the hash over inputs [0, 1) and outputs
\* [0, 2) and no deps, and the run reports handled when the verifier accepts.
ScenarioB ==
    /\ Witnesses = <<OtxStart(0, 0, 0, 0),
                     Otx(0, 1, 2, 0, 0, 0, 0, 0, 0, <<current_script_hash>>)>>
    /\ tx.input_lock[1] = current_script_hash
    /\ \A k \in 2..NumInputs : tx.input_lock[k] # current_script_hash
    /\ Len(tx.output_type) >= 2

C4_ScenarioB ==
    (Done /\ ScenarioB) =>
        /\ Len(calls) = 1
        /\ calls[1].seal = [witness |-> 1, index |-> 0]
        /\ calls[1].hash.tag = "otx"
        /\ calls[1].hash.range = OtxSigningRange(0, 1, 0, 2, 0, 0, 0, 0)
        /\ result = IF calls[1].ok THEN "OkTrue" ELSE "AuthError"

C4_Witness == Done /\ ScenarioB /\ result = "OkTrue" /\ NumInputs = 2

\* C5: an OTX whose fixed input sub-range holds an input of the current script
\* and whose seal list has no seal of the current script makes the run fail with
\* NoSealFound, without a verifier invocation for it.  (Stated for an Otx that
\* passes the flag and count checks and whose ranges lie inside the arrays.)
ValidOtx(o) ==
    /\ o.flag < 16
    /\ o.fixed_input_cells + o.fixed_output_cells
       + o.fixed_cell_deps + o.fixed_header_deps > 0
    /\ o.dynamic_input_cells > 0 => Bit(o.flag, 0)
    /\ o.dynamic_output_cells > 0 => Bit(o.flag, 1)
    /\ o.dynamic_cell_deps > 0 => Bit(o.flag, 2)
    /\ o.dynamic_header_deps > 0 => Bit(o.flag, 3)

InsideArrays(o) ==
    /\ state.input_end + o.fixed_input_cells + o.dynamic_input_cells <= NumInputs
    /\ state.output_end + o.fixed_output_cells <= Len(tx.output_type)
    /\ state.cell_dep_end + o.fixed_cell_deps <= tx.cell_deps
    /\ state.header_dep_end + o.fixed_header_deps <= tx.header_deps

NoSealOfCurrentScript(o) ==
    \A k \in 1..Len(o.seals) : o.seals[k] # current_script_hash

C5_NoSealFound ==
    [][(/\ AtOtx
        /\ ValidOtx(CurrentWitness)
        /\ InsideArrays(CurrentWitness)
        /\ LockedInRange(state.input_end,
                         state.input_end + CurrentWitness.fixed_input_cells)
        /\ NoSealOfCurrentScript(CurrentWitness))
       => (result' = "NoSealFound" /\ calls' = calls)]_vars

\* C6: a witness sequence with an OtxStart, later an Otx, later a witness that
\* does not decode, later another Otx, fails with WrongWitnessLayout (and the
\* OTX loop is never entered).
ScenarioD ==
    \E s \in WitnessIndices :
        /\ Kind(s) = "OtxStart"
        /\ \E a \in (s + 1)..(NumWitnesses - 1) :
            /\ Kind(a) = "Otx"
            /\ \E n \in (a + 1)..(NumWitnesses - 1) :
                /\ Kind(n) \in {"Empty", "WitnessArgs"}
                /\ \E b \in (n + 1)..(NumWitnesses - 1) : Kind(b) = "Otx"

C6_GapInRunIsRejected ==
    \/ pc = "start"
    \/ Done /\ result = "WrongWitnessLayout"
    \/ ~ScenarioD

C6_Witness == Done /\ ScenarioD /\ result = "WrongWitnessLayout"

\* C7: with one OtxStart directly followed by a SighashAll or SighashAllOnly
\* and no Otx anywhere, the loop processes no Otx, the cursors keep the values
\* of the OtxStart and the stray-Otx check does not raise WrongWitnessLayout.
\* (The stray-Otx check is the only place that ends such a run with
\* WrongWitnessLayout before execution_count is incremented.)
ScenarioE ==
    /\ \A j \in WitnessIndices : Kind(j) # "Otx"
    /\ \E i \in WitnessIndices :
        /\ Kind(i) = "OtxStart"
        /\ \A j \in WitnessIndices \ {i} : Kind(j) # "OtxStart"
        /\ i + 1 < NumWitnesses
        /\ Kind(i + 1) \in {"SighashAll", "SighashAllOnly"}

GroupInputs ==
    {i \in 0..(NumInputs - 1) : tx.input_lock[i + 1] = current_script_hash}
FirstGroupInput == CHOOSE i \in GroupInputs : \A j \in GroupInputs : i <= j

\* no OtxStart and no Otx; the group's first witness is a SighashAll or a
\* SighashAllOnly, its other witnesses are empty, at most one SighashAll
ScenarioA ==
    /\ \A j \in WitnessIndices : Kind(j) \notin {"OtxStart", "Otx"}
    /\ FirstGroupInput < NumWitnesses
    /\ Kind(FirstGroupInput) \in {"SighashAll", "SighashAllOnly"}
    /\ \A i \in GroupInputs \ {FirstGroupInput} :
            i < NumWitnesses => Kind(i) = "Empty"
    /\ Cardinality({j \in WitnessIndices : Kind(j) = "SighashAll"}) <= 1

\* exactly one invocation, with the seal of the group's first witness and the
\* whole-transaction hash, and success exactly when it succeeds
OneWholeTransactionInvocation ==
    /\ result # "OkFalse"
    /\ Len(calls) = 1
    /\ calls[1].seal = [witness |-> FirstGroupInput, index |-> 0]
    /\ calls[1].hash.range = "tx"
    /\ calls[1].hash.tag =
            IF \E j \in WitnessIndices : Kind(j) = "SighashAll"
            THEN "sighash_all" ELSE "sighash_all_only"
    /\ result = "OkTrue" <=> calls[1].ok
    /\ result = "AuthError" <=> ~calls[1].ok

\* every action of every SighashAll message has a role code in 0..2 and names
\* a script hash that some cell carries in that role
ActionsTargetExistingScripts ==
    \A j \in WitnessIndices : Kind(j) = "SighashAll" =>
        \A k \in 1..Len(Witnesses[j + 1].message) :
            LET a == Witnesses[j + 1].message[k]
            IN  /\ a.script_type \in {0, 1, 2}
                /\ \E c \in 0..MaxInputs + MaxOutputs :
                        CellHasScript(a.script_hash,
                            CASE a.script_type = 0 -> "InputLock"
                              [] a.script_type = 1 -> "InputType"
                              [] a.script_type = 2 -> "OutputType", c)

MovesPast(before, after, fixed, dynamic) ==
    /\ after >= before
    /\ after - before >= fixed
    /\ (after - before) - fixed >= dynamic

\* C11: over every Otx the loop processes, each of the four cursors is
\* non-decreasing, and the range of the next Otx starts at or after the end of
\* the range of this one.
C11_CursorsNeverMoveBack ==
    [][(AtOtx /\ pc' # "done") =>
        LET o == CurrentWitness
        IN  /\ MovesPast(state.input_end, state'.input_end,
                         o.fixed_input_cells, o.dynamic_input_cells)
            /\ MovesPast(state.output_end, state'.output_end,
                         o.fixed_output_cells, o.dynamic_output_cells)
            /\ MovesPast(state.cell_dep_end, state'.cell_dep_end,
                         o.fixed_cell_deps, o.dynamic_cell_deps)
            /\ MovesPast(state.header_dep_end, state'.header_dep_end,
                         o.fixed_header_deps, o.dynamic_header_deps)]_vars

\* C12: when cobuild_entry succeeds after an OTX run, no cursor is beyond the
\* end of its array.
C12_CursorsInsideArrays ==
    (Done /\ result = "OkTrue" /\ HasOtxStart) =>
        /\ state.input_end <= NumInputs
        /\ state.output_end <= Len(tx.output_type)
        /\ state.cell_dep_end <= tx.cell_deps
        /\ state.header_dep_end <= tx.header_deps

(***************************************************************************)
(* The seals.                                                              *)
(***************************************************************************)
\* the seal list holds the current script hash at position 0 and at a later one
SealAtHeadAndLater(o) ==
    /\ Len(o.seals) >= 2
    /\ o.seals[1] = current_script_hash
    /\ \E k \in 2..Len(o.seals) : o.seals[k] = current_script_hash

\* the current script locks an input of the fixed and one of the dynamic
\* input sub-range of the Otx the loop is at
InBothSubRanges(o) ==
    /\ LockedInRange(state.input_end, state.input_end + o.fixed_input_cells)
    /\ LockedInRange(state.input_end + o.fixed_input_cells,
                     state.input_end + o.fixed_input_cells + o.dynamic_input_cells)

\* C13: for an Otx with the current script hash at seal position 0 and at a
\* position k > 0, and the current script in both the fixed and the dynamic
\* input sub-range, the fixed-range invocation gets the seal of position 0 with
\* the fixed hash, and (when it succeeds) the dynamic-range invocation gets a
\* seal of a later position with the dynamic hash.
C13_DistinctSeals ==
    [][(/\ AtOtx
        /\ ValidOtx(CurrentWitness)
        /\ InsideArrays(CurrentWitness)
        /\ SealAtHeadAndLater(CurrentWitness)
        /\ InBothSubRanges(CurrentWitness))
       => LET o == CurrentWitness
              n == Len(calls)
          IN  /\ Len(calls') > n
              /\ calls'[n + 1].seal = [witness |-> witness_index, index |-> 0]
              /\ calls'[n + 1].hash.range.inputs_count = o.fixed_input_cells
              /\ calls'[n + 1].ok =>
                    /\ Len(calls') = n + 2
                    /\ calls'[n + 2].seal.witness = witness_index
                    /\ calls'[n + 2].seal.index > 0
                    /\ o.seals[calls'[n + 2].seal.index + 1] = current_script_hash
                    /\ calls'[n + 2].hash.range.inputs_count =
                            o.fixed_input_cells + o.dynamic_input_cells]_vars

(***************************************************************************)
(* The entry orchestrator.                                                 *)
(***************************************************************************)
NothingDecodes == \A i \in WitnessIndices : Kind(i) \notin LayoutKinds

\* C15: the run is classified as activated exactly when some witness decodes
\* as a WitnessLayout (a witness that does not decode is no error); when none
\* decodes, cobuild_entry returns Ok(false) with no verifier invocation, no
\* CobuildState built and no Otx looked at.
C15_LegacyWhenNothingDecodes ==
    Done =>
        /\ result = "OkFalse" <=> NothingDecodes
        /\ result = "OkFalse" =>
            /\ calls = <<>>
            /\ state = NoState
            /\ otx_count = 0
            /\ execution_count = 0

\* witnesses that do not decode, one of them not empty
C15_Witness ==
    /\ Done
    /\ result = "OkFalse"
    /\ NumWitnesses >= 2
    /\ Kind(0) = "Empty"
    /\ Kind(1) = "WitnessArgs"

\* a second OtxStart, an Otx before any OtxStart, or an Otx whose preceding
\* witness is neither the OtxStart nor an Otx
BrokenRun ==
    \/ Cardinality({i \in WitnessIndices : Kind(i) = "OtxStart"}) >= 2
    \/ \E i \in WitnessIndices :
        /\ Kind(i) = "Otx"
        /\ \/ \A j \in 0..(i - 1) : Kind(j) # "OtxStart"
           \/ Kind(i - 1) \notin {"OtxStart", "Otx"}

\* C16: the scan rejects with WrongWitnessLayout every witness sequence with a
\* second OtxStart, an Otx before any OtxStart or an Otx not directly after the
\* OtxStart or another Otx; when it accepts an OTX run, the state is built from
\* the index of the single OtxStart and its four offsets.
C16_ScanRejectsBrokenRuns ==
    [][pc = "start" =>
        /\ BrokenRun => (pc' = "done" /\ result' = "WrongWitnessLayout")
        /\ pc' # "done" =>
            /\ Cardinality({i \in WitnessIndices : Kind(i) = "OtxStart"}) = 1
            /\ state' = InitialState(FirstOtxStart, Witnesses[FirstOtxStart + 1])
            /\ witness_index' = FirstOtxStart + 1]_vars

\* an accepted run whose OtxStart is not the first witness and has offsets
C16_Witness ==
    /\ pc = "otx_loop"
    /\ otx_count = 0
    /\ FirstOtxStart = 1
    /\ state.otx_start_index = 1
    /\ state.output_end = 1
    /\ Kind(2) = "Otx"

NoOtxAtAll == \A i \in WitnessIndices : Kind(i) \notin {"OtxStart", "Otx"}

InputsOf(h) == {i \in 0..(NumInputs - 1) : tx.input_lock[i + 1] = h}
FirstInputOf(h) == CHOOSE i \in InputsOf(h) : \A j \in InputsOf(h) : i <= j
Groups == {h \in ScriptHashes : InputsOf(h) # {}}

\* the group of lock h is authorized through the whole-transaction path: its
\* first witness is a SighashAll or SighashAllOnly, its other witnesses are empty
GroupAuthorized(h) ==
    /\ FirstInputOf(h) < NumWitnesses
    /\ Kind(FirstInputOf(h)) \in {"SighashAll", "SighashAllOnly"}
    /\ \A i \in InputsOf(h) \ {FirstInputOf(h)} :
            i < NumWitnesses => Kind(i) = "Empty"

SeveralGroups ==
    /\ Cardinality(Groups) >= 2
    /\ \A h \in Groups : GroupAuthorized(h)
    /\ Cardinality({j \in WitnessIndices : Kind(j) = "SighashAll"}) <= 1

\* C18: in a transaction of several script groups, each authorized through the
\* whole-transaction path, the lock demo run of a group whose seal does not
\* authenticate exits with error code 5 (AuthFailed), whatever the other
\* groups' seals are; a transaction with a failing script fails.
C18_FailedSealExitsWithAuthFailed ==
    (Done /\ SeveralGroups) =>
        /\ Len(calls) = 1
        /\ calls[1].seal = [witness |-> FirstInputOf(current_script_hash),
                            index |-> 0]
        /\ ~calls[1].ok => (result = "AuthFailed" /\ exit_code(result) = 5)
        /\ calls[1].ok => exit_code(result) = 0

\* the second group's run, its seal rejected
C18_Witness ==
    /\ Done
    /\ SeveralGroups
    /\ FirstInputOf(current_script_hash) = 1
    /\ result = "AuthFailed"
    /\ exit_code(result) = 5

(***************************************************************************)
(* The OTX hash.                                                           *)
(***************************************************************************)
\* C19: for an OTX whose fixed range covers inputs [s, s+n) and outputs
\* [t, t+m), with no fixed cell deps and header deps, the on-chain hasher
\* absorbs what the reference does on those cells: the message, n, the n
\* inputs from s on (input, cell, data length, data), m, the m outputs from t
\* on (cell, encoded data), the cell-dep count and the header-dep count.
C19_AbsorbsTheReferenceItems ==
    (/\ pc = "returned"
     /\ fn_in.s + fn_in.n <= Len(fn_in.inputs)
     /\ fn_in.t + fn_in.m <= Len(fn_in.outputs)
     /\ fn_in.fixed_deps = 0)
    => /\ fn_out.onchain = fn_out.reference
       /\ fn_out.onchain[1] = <<"message", "message">>
       /\ SubSeq(fn_out.onchain, 2, 5) = Raw(to_le_bytes(fn_in.n))
       /\ fn_in.n > 0 => fn_out.onchain[6] = <<"input", fn_in.s>>
       /\ Cardinality({k \in 1..Len(fn_out.onchain) :
                fn_out.onchain[k][1] = "input"}) = fn_in.n
       /\ Cardinality({k \in 1..Len(fn_out.onchain) :
                fn_out.onchain[k][1] = "cell"}) = fn_in.n + fn_in.m

\* one input from input 1 on and one output from output 1 on
C19_Witness ==
    /\ pc = "returned"
    /\ fn_in.s = 1
    /\ fn_in.n = 1
    /\ fn_in.inputs = <<<<>>, <<1>>>>
    /\ fn_in.t = 1
    /\ fn_in.m = 1
    /\ fn_in.fixed_deps = 0
    /\ fn_out.onchain = fn_out.reference

(***************************************************************************)
(* The message.                                                            *)
(***************************************************************************)
SighashAllIndices == {j \in WitnessIndices : Kind(j) = "SighashAll"}

\* C20: fetch_message returns the message of the SighashAll witness when
\* exactly one witness is a SighashAll, None when none is, and
\* WrongWitnessLayout when two or more are; the other witnesses do not matter.
C20_FetchMessage ==
    pc = "returned" =>
        LET n == Cardinality(SighashAllIndices)
        IN  /\ n = 0 => fn_out = [err |-> "none", message |-> NoMessage]
            /\ n = 1 =>
                /\ fn_out.err = "none"
                /\ fn_out.message.present
                /\ \A j \in SighashAllIndices :
                        fn_out.message.actions = Witnesses[j + 1].message
            /\ n >= 2 => fn_out.err = "WrongWitnessLayout"

\* two SighashAll among witnesses of other kinds
C20_Witness ==
    /\ pc = "returned"
    /\ NumWitnesses = 4
    /\ Kind(0) = "WitnessArgs"
    /\ Kind(1) = "SighashAll"
    /\ Kind(2) = "Otx"
    /\ Kind(3) = "SighashAll"
    /\ fn_out.err = "WrongWitnessLayout"

(***************************************************************************)
(* The group check of the whole-transaction path.                          *)
(***************************************************************************)
\* a witness of the group other than the first is not empty
NonEmptyOtherInGroup ==
    \E i \in GroupInputs \ {FirstGroupInput} :
        i < NumWitnesses /\ Kind(i) # "Empty"

\* this step runs the whole-transaction path: step 3 (cobuild-activated, no
\* OtxStart and no Otx) or step 8 (which counts the run in execution_count)
WholeTransactionPathRuns ==
    \/ pc = "start" /\ NoOtxAtAll /\ ~NothingDecodes
    \/ pc = "post_loop" /\ execution_count' = execution_count + 1

\* C21: the whole-transaction path fails with WrongWitnessLayout whenever a
\* witness of the current script's input group other than the first is not
\* empty, and it does so before anything else: the verifier is not invoked.
C21_GroupCheckComesFirst ==
    [][(WholeTransactionPathRuns /\ NonEmptyOtherInGroup) =>
            /\ pc' = "done"
            /\ result' = "WrongWitnessLayout"
            /\ calls' = calls]_vars

\* the path of step 3 has met a second group witness that is not empty, in a
\* transaction whose first group witness and SighashAll are in order
C21_Witness ==
    /\ Done
    /\ NoOtxAtAll
    /\ NonEmptyOtherInGroup
    /\ Kind(FirstGroupInput) = "SighashAll"
    /\ result = "WrongWitnessLayout"
    /\ calls = <<>>

(***************************************************************************)
(* check_message.                                                          *)
(***************************************************************************)
RoleOf(code) ==
    CASE code = 0 -> "InputLock"
      [] code = 1 -> "InputType"
      [] code = 2 -> "OutputType"

\* the action names an undefined role, or a hash that no cell carries in the
\* role it names
UndefinedRole(a) == a.script_type \notin {0, 1, 2}
AbsentUnderRole(a) ==
    /\ ~UndefinedRole(a)
    /\ \A c \in 0..(MaxInputs + MaxOutputs) :
            ~CellHasScript(a.script_hash, RoleOf(a.script_type), c)
Violating(a) == UndefinedRole(a) \/ AbsentUnderRole(a)

\* C22: check_message returns Ok exactly when no action violates; otherwise
\* the first violating action in list order decides the error:
\* WrongScriptType for an undefined role, ScriptHashAbsent for a hash with no
\* occurrence under the declared role.
C22_CheckMessage ==
    pc = "returned" =>
        /\ fn_out = "none" <=> \A k \in 1..Len(fn_in) : ~Violating(fn_in[k])
        /\ \A k \in 1..Len(fn_in) :
            (Violating(fn_in[k]) /\ \A j \in 1..(k - 1) : ~Violating(fn_in[j])) =>
                fn_out = IF UndefinedRole(fn_in[k]) THEN "WrongScriptType"
                         ELSE "ScriptHashAbsent"

\* a hash that occurs as a type script only is named as an input lock, before
\* an action with an undefined role
C22_Witness ==
    /\ pc = "returned"
    /\ Len(fn_in) = 2
    /\ fn_in[1] = [script_type |-> 0, script_hash |-> "A"]
    /\ UndefinedRole(fn_in[2])
    /\ \E c \in 0..MaxOutputs : CellHasScript("A", "OutputType", c)
    /\ \A c \in 0..MaxInputs : ~CellHasScript("A", "InputLock", c)
    /\ fn_out = "ScriptHashAbsent"

(***************************************************************************)
(* The residual whole-transaction check (step 8).                          *)
(***************************************************************************)
\* the stray-Otx check succeeds: every Otx witness is in the run
NoStrayOtx == \A j \in WitnessIndices : Kind(j) = "Otx" => InRun(j)

\* the inputs outside [input_start, input_end) that the current script locks
ResidualInputs ==
    {i \in GroupInputs : i < state.input_start \/ i >= state.input_end}

\* the step runs the whole-transaction path once: it is counted once and
\* invokes the verifier at most once, over the whole transaction
RunsWholeTransactionPathOnce ==
    /\ execution_count' = execution_count + 1
    /\ \/ calls' = calls
       \/ /\ Len(calls') = Len(calls) + 1
          /\ SubSeq(calls', 1, Len(calls)) = calls
          /\ calls'[Len(calls')].hash.tag \in {"sighash_all", "sighash_all_only"}

\* C23: after the OTX loop and the stray-Otx check succeed, the
\* whole-transaction path is run exactly once if some input outside
\* [input_start, input_end) is locked by the current script, however many
\* there are, and not at all if there is none; when input_start equals
\* input_end every input counts as outside.
C23_ResidualCheckRunsOnce ==
    [][(pc = "post_loop" /\ NoStrayOtx) =>
        /\ pc' = "done"
        /\ IF ResidualInputs # {}
           THEN RunsWholeTransactionPathOnce
           ELSE /\ execution_count' = execution_count
                /\ calls' = calls
                /\ result' = "OkTrue"
        /\ state.input_start = state.input_end => ResidualInputs = GroupInputs]_vars

\* the path has run for an input before the OTX range, after an OTX
\* entry that invoked the verifier
C23_Witness ==
    /\ Done
    /\ HasOtxStart
    /\ otx_count = 1
    /\ state.input_start = 1
    /\ state.input_end = 2
    /\ ResidualInputs = {0}
    /\ Len(calls) = 2
    /\ calls[1].hash.tag = "otx"
    /\ calls[2].hash.tag = "sighash_all"
    /\ result = "OkTrue"

(***************************************************************************)
(* Failed verifier invocations.                                            *)
(***************************************************************************)
Succeeded == result \in {"OkTrue", "OkFalse"}

\* C24: once a verifier invocation has failed, the run ends with an error
\* and the verifier is not invoked again: a failed invocation is the last of
\* the log, and the run that made it is over and has not succeeded.
C24_FailureEndsTheRun ==
    /\ \A k \in 1..(Len(calls) - 1) : calls[k].ok
    /\ (calls # <<>> /\ ~calls[Len(calls)].ok) => (Done /\ ~Succeeded)

\* the fixed-range invocation of an OTX has failed; its dynamic sub-range was
\* to be checked next and an input is left outside the OTX range
C24_Witness ==
    /\ Done
    /\ ~Succeeded
    /\ Len(calls) = 1
    /\ ~calls[1].ok
    /\ calls[1].hash.tag = "otx"
    /\ calls[1].hash.range.inputs_count = 0
    /\ NumWitnesses = 2
    /\ Kind(1) = "Otx"
    /\ Witnesses[2].dynamic_input_cells = 1
    /\ Len(Witnesses[2].seals) = 2
    /\ state.input_end = 1
    /\ NumInputs = 2

(***************************************************************************)
(* The advance of the cursors over one Otx entry.                          *)
(***************************************************************************)
\* this step processes the Otx entry at witness_index without error, in the
\* OTX loop of cobuild_entry or in OtxMessageIter::next
ProcessesOtxWithoutError ==
    /\ pc \in {"otx_loop", "otx_demo_next"}
    /\ witness_index < NumWitnesses
    /\ CurrentWitness.kind = "Otx"
    /\ pc' # "done"

\* C25: for every Otx entry processed without error each of the four cursors
\* advances by exactly the entry's fixed count plus its dynamic count of the
\* category, whatever the branch taken.
C25_CursorsAdvanceByCounts ==
    [][ProcessesOtxWithoutError =>
        /\ state'.input_end = state.input_end
                + CurrentWitness.fixed_input_cells + CurrentWitness.dynamic_input_cells
        /\ state'.output_end = state.output_end
                + CurrentWitness.fixed_output_cells + CurrentWitness.dynamic_output_cells
        /\ state'.cell_dep_end = state.cell_dep_end
                + CurrentWitness.fixed_cell_deps + CurrentWitness.dynamic_cell_deps
        /\ state'.header_dep_end = state.header_dep_end
                + CurrentWitness.fixed_header_deps + CurrentWitness.dynamic_header_deps]_vars

(***************************************************************************)
(* An OTX that does not concern the current script.                        *)
(***************************************************************************)
\* C26: an Otx entry with valid flag and counts whose fixed and dynamic input
\* sub-ranges hold no input locked by the current script causes no verifier
\* invocation and no NoSealFound error.  (Stated for an Otx whose ranges lie
\* inside the arrays.)
C26_UnconcernedOtxIsSkipped ==
    [][(/\ AtOtx
        /\ ValidOtx(CurrentWitness)
        /\ InsideArrays(CurrentWitness)
        /\ ~LockedInRange(state.input_end,
                          state.input_end + CurrentWitness.fixed_input_cells
                          + CurrentWitness.dynamic_input_cells))
       => /\ calls' = calls
          /\ result' # "NoSealFound"]_vars

(***************************************************************************)
(* The signing ranges.                                                     *)
(***************************************************************************)
\* the range of a verification of the Otx at witness_index that covers
\* inputs_count inputs, with the cursors of the current state
ExpectedRange(inputs_count) ==
    [input_start |-> state.input_end,
     inputs_count |-> inputs_count,
     output_start |-> state.output_end,
     outputs_count |-> CurrentWitness.fixed_output_cells,
     cell_dep_start |-> state.cell_dep_end,
     cell_deps_count |-> CurrentWitness.fixed_cell_deps,
     header_dep_start |-> state.header_dep_end,
     header_deps_count |-> CurrentWitness.fixed_header_deps]

ExpectedFixedRange == ExpectedRange(CurrentWitness.fixed_input_cells)
ExpectedDynamicRange ==
    ExpectedRange(CurrentWitness.fixed_input_cells
                  + CurrentWitness.dynamic_input_cells)

\* C27: the verifications of an OTX are made over the fixed range (cursors
\* before the advance, fixed counts) and over the dynamic range (the same with
\* inputs_count = fixed + dynamic input cells), the fixed one first; dynamic
\* outputs, cell deps and header deps are in no signing range.
C27_SigningRanges ==
    [][AtOtx =>
        LET n == Len(calls') - Len(calls)
            new(k) == calls'[Len(calls) + k].hash
        IN  /\ n \in {0, 1, 2}
            /\ \A k \in 1..n : new(k).tag = "otx"
            /\ n = 1 => new(1).range \in {ExpectedFixedRange, ExpectedDynamicRange}
            /\ n = 2 => /\ new(1).range = ExpectedFixedRange
                        /\ new(2).range = ExpectedDynamicRange]_vars

\* an OTX with dynamic inputs and dynamic outputs, verified over both ranges
C27_Witness ==
    /\ Len(calls) = 2
    /\ calls[1].ok /\ calls[2].ok
    /\ Kind(1) = "Otx"
    /\ Witnesses[2].dynamic_input_cells = 1
    /\ Witnesses[2].dynamic_output_cells = 1
    /\ calls[1].hash.range.inputs_count = 0
    /\ calls[2].hash.range.inputs_count = 1
    /\ calls[2].hash.range.outputs_count = 1
    /\ state.output_end = 2

(***************************************************************************)
(* One seal for two obligations.                                           *)
(***************************************************************************)
\* the seal list of the Otx holds exactly one seal of the current script
OneSealOfCurrentScript(o) == Cardinality(MatchingSeals(o.seals)) = 1

\* the invocations this step makes with a seal of the Otx at witness_index
NewInvocations ==
    {k \in (Len(calls) + 1)..Len(calls') : calls'[k].seal.witness = witness_index}

\* C28: when the current script is in both the fixed and the dynamic input
\* sub-range of an OTX that carries exactly one seal of the script, that seal
\* serves one obligation only: it goes to the verifier for at most one of the
\* two hashes, and the other obligation stays undischarged, so the OTX is not
\* passed.
C28_OneSealOneObligation ==
    [][(/\ AtOtx
        /\ ValidOtx(CurrentWitness)
        /\ InsideArrays(CurrentWitness)
        /\ InBothSubRanges(CurrentWitness)
        /\ OneSealOfCurrentScript(CurrentWitness))
       => /\ Cardinality(NewInvocations) <= 1
          /\ pc' = "done"
          /\ result' \notin {"OkTrue", "OkFalse", "none"}]_vars

(***************************************************************************)
(* One invocation per obligation.                                          *)
(***************************************************************************)
\* the seals of the current script in the Otx at witness_index (0-based)
SealsOfCurrentScript == MatchingSeals(CurrentWitness.seals)

\* the first seal of the current script in forward or in reverse scan order
FirstInScanOrder(k) ==
    /\ k \in SealsOfCurrentScript
    /\ \/ \A j \in SealsOfCurrentScript : k <= j
       \/ \A j \in SealsOfCurrentScript : k >= j

\* C29: for each obligation of an OTX (each hash) the verifier is invoked at
\* most once, with the first seal of the current script in scan order; if the
\* invocation fails the run fails, and no further seal is tried.
C29_OneInvocationPerObligation ==
    [][(/\ pc \in {"otx_loop", "otx_demo_next"}
        /\ witness_index < NumWitnesses
        /\ CurrentWitness.kind = "Otx")
       => /\ \A j, k \in NewInvocations :
                calls'[j].hash = calls'[k].hash => j = k
          /\ \A k \in NewInvocations :
                /\ FirstInScanOrder(calls'[k].seal.index)
                /\ ~calls'[k].ok =>
                    /\ pc' = "done"
                    /\ result' \notin {"Ok", "OkTrue", "OkFalse", "none"}
                    /\ k = Len(calls')]_vars

(***************************************************************************)
(* Dynamic counts and flag bits.                                           *)
(***************************************************************************)
\* some category has a dynamic count while its flag bit is clear
DynamicCountWithoutBit(o) ==
    \/ o.dynamic_input_cells # 0 /\ ~Bit(o.flag, 0)
    \/ o.dynamic_output_cells # 0 /\ ~Bit(o.flag, 1)
    \/ o.dynamic_cell_deps # 0 /\ ~Bit(o.flag, 2)
    \/ o.dynamic_header_deps # 0 /\ ~Bit(o.flag, 3)

SomeFixedCount(o) ==
    o.fixed_input_cells + o.fixed_output_cells
    + o.fixed_cell_deps + o.fixed_header_deps > 0

\* C30: an Otx entry with a valid flag and a nonzero fixed count fails with
\* WrongCount exactly when some category has a nonzero dynamic count while
\* its flag bit is clear; a set bit with a zero dynamic count is accepted.
C30_DynamicCountNeedsItsBit ==
    [][(/\ pc \in {"otx_loop", "otx_demo_next"}
        /\ witness_index < NumWitnesses
        /\ CurrentWitness.kind = "Otx"
        /\ CurrentWitness.flag < 16
        /\ SomeFixedCount(CurrentWitness))
       => ((pc' = "done" /\ result' = "WrongCount")
            <=> DynamicCountWithoutBit(CurrentWitness))]_vars

(***************************************************************************)
(* The stray-Otx check (step 7).                                           *)
(***************************************************************************)
\* j: the first witness after the OtxStart that is no Otx, or the number of
\* witnesses when the run reaches the end
LoopEnd ==
    IF \E k \in WitnessIndices : k > FirstOtxStart /\ Kind(k) # "Otx"
    THEN CHOOSE k \in WitnessIndices :
            /\ k > FirstOtxStart
            /\ Kind(k) # "Otx"
            /\ \A l \in (FirstOtxStart + 1)..(k - 1) : Kind(l) = "Otx"
    ELSE NumWitnesses

\* some witness before the OtxStart or from j on decodes as Otx
OtxOutsideRun ==
    \E k \in WitnessIndices :
        /\ Kind(k) = "Otx"
        /\ k < FirstOtxStart \/ k >= LoopEnd

LoneOtxStart ==
    /\ HasOtxStart
    /\ \A k \in WitnessIndices :
        /\ Kind(k) # "Otx"
        /\ Kind(k) = "OtxStart" => k = FirstOtxStart

\* C32: fetch_otx_start answers WrongOtxStart for an OtxStart that no Otx
\* follows, at whatever witness index the OtxStart is.
C32_OtxStartNeedsAnOtx ==
    [][(pc = "otx_demo_start" /\ LoneOtxStart)
       => (pc' = "done" /\ result' = "WrongOtxStart")]_vars

(***************************************************************************)
(* The script-hash index after cache_script_hashes.                        *)
(***************************************************************************)
\* the hashes of the cells of a role (NoScript: the cell has no type script)
RoleHashes(script_type) ==
    CASE script_type = "InputLock" -> tx.input_lock
      [] script_type = "InputType" -> tx.input_type
      [] script_type = "OutputType" -> tx.output_type

\* the index list stored for h under a role; a hash without entry has none
StoredList(h, script_type) ==
    IF h \in DOMAIN fn_out THEN RoleList(fn_out[h], script_type) ELSE <<>>

StrictlyIncreasing(list) ==
    \A k \in 1..(Len(list) - 1) : list[k] < list[k + 1]

\* C33: after cache_script_hashes, and after any query of the index, the list
\* stored for a script hash h under a role is strictly increasing and holds i
\* exactly when cell i carries h in that role; a cell without type script is
\* in no list of the type roles.
C33_IndexListsAreExact ==
    pc \in {"cached", "queried"} =>
        \A ty \in ScriptTypes :
            LET hashes == RoleHashes(ty)
            IN  /\ \A h \in ScriptHashes \cup {"C"} :
                    LET list == StoredList(h, ty)
                    IN  /\ StrictlyIncreasing(list)
                        /\ \A i \in 0..(MaxInputs + MaxOutputs) :
                            (\E k \in 1..Len(list) : list[k] = i)
                                <=> (i < Len(hashes) /\ hashes[i + 1] = h)
                /\ \A i \in 1..Len(hashes) :
                    hashes[i] = NoScript =>
                        \A h \in DOMAIN fn_out :
                            \A k \in 1..Len(StoredList(h, ty)) :
                                StoredList(h, ty)[k] # i - 1

\* "A" locks both inputs and is the type script of the second input only and
\* of the second output only; the index has been queried
C33_Witness ==
    /\ pc = "queried"
    /\ fn_in.script_hash = "A"
    /\ fn_in.script_type = "InputType"
    /\ fn_in.exist
    /\ tx.input_lock = <<"A", "A">>
    /\ tx.input_type = <<NoScript, "A">>
    /\ tx.output_type = <<"B", "A">>
    /\ fn_out["A"] = [input_lock |-> <<0, 1>>, input_type |-> <<1>>,
                      output_type |-> <<1>>]

(***************************************************************************)
(* The u32 additions of the cursors.                                       *)
(***************************************************************************)
\* the cursor goes from `before` to `after` over an Otx of the given counts:
\* neither fixed + dynamic nor before + (fixed + dynamic) leaves the word, and
\* `after` is their sum
ExactSum(before, after, fixed, dynamic) ==
    /\ fixed + dynamic < WordModulus
    /\ before + (fixed + dynamic) < WordModulus
    /\ after = before + (fixed + dynamic)

\* C34: over every Otx the loop of cobuild_entry processes, no addition on a
\* cursor wraps: each cursor ends at the sum, in the integers, of its value
\* before the Otx and the fixed and dynamic counts of the Otx, hence at the
\* OtxStart offset plus the counts processed so far.
C34_NoCursorAdditionWraps ==
    [][(AtOtx /\ pc' # "done") =>
        LET o == CurrentWitness
        IN  /\ ExactSum(state.input_end, state'.input_end,
                        o.fixed_input_cells, o.dynamic_input_cells)
            /\ ExactSum(state.output_end, state'.output_end,
                        o.fixed_output_cells, o.dynamic_output_cells)
            /\ ExactSum(state.cell_dep_end, state'.cell_dep_end,
                        o.fixed_cell_deps, o.dynamic_cell_deps)
            /\ ExactSum(state.header_dep_end, state'.header_dep_end,
                        o.fixed_header_deps, o.dynamic_header_deps)]_vars

(***************************************************************************)
(* The OTX lock demo authenticates the inputs of the current script.       *)
(***************************************************************************)
\* input i is in the range of a hash that the verifier accepted
Authenticated(i) ==
    \E k \in 1..Len(calls) :
        /\ calls[k].ok
        /\ i >= calls[k].hash.range.input_start
        /\ i < calls[k].hash.range.input_start + calls[k].hash.range.inputs_count

\* C35: when the OTX lock demo succeeds, the verifier has accepted a seal:
\* some invocation returned true, and every input the current script locks,
\* in particular one outside the fixed range of every Otx, is in the range of
\* an accepted hash.
C35_SuccessMeansAuthenticated ==
    (Done /\ result = "Ok" /\ GroupInputs # {}) =>
        /\ \E k \in 1..Len(calls) : calls[k].ok
        /\ \A i \in GroupInputs : Authenticated(i)

====
